---- MODULE Spec2Model ----
(***************************************************************************)
(* A model of three-text: the glyph cache (core/cache/GlyphCache.ts), the  *)
(* orchestration of Text.create (core/Text.ts) and the Knuth-Plass line    *)
(* breaker (core/layout/LineBreak.ts, core/layout/TextLayout.ts).          *)
(*                                                                         *)
(* Further machines model the geometry builder on top of the cache        *)
(* (core/cache/GlyphGeometryBuilder.ts), the path optimizer                *)
(* (core/geometry/PathOptimizer.ts), the HarfBuzz loader and single passes *)
(* of the line breaker.                                                    *)
(*                                                                         *)
(* The sub-machines share the module; each has its own specification that  *)
(* holds the variables of the others at their initial values.              *)
(***************************************************************************)
EXTENDS Integers, Sequences, FiniteSets, TLC

VARIABLES
  \* ---- GlyphCache ----
  nodes,        \* every LRUNode ever allocated: [key, data, prev, next], 0 = null
  cache,        \* Map<string, LRUNode>: key -> node id, 0 = absent
  head,         \* GlyphCache.head (0 = null)
  tail,         \* GlyphCache.tail (0 = null)
  stats,        \* GlyphCache.stats
  clock,        \* history: number of get/set/clear calls made so far
  lastUse,      \* history: key -> clock of its last set or successful get
  \* ---- Text.create ----
  pc,           \* call -> where the call stands (the await it is suspended at)
  opts,         \* call -> the TextOptions it was given
  err,          \* call -> the error the call rejected with ("" = none)
  fontCache,    \* Text.fontCache: the font keys that hold a LoadedFont
  patternCache, \* Text.patternCache: the languages that hold a pattern trie
  warned,       \* call -> debugLogger.warn was called for it
  patternFailed,\* history: call -> loadPattern rejected for it
  work,         \* call -> what layout, shaping and geometry work was done for it
  \* ---- TextLayout.computeLines ----
  inputText,     \* the text typed so far, a sequence of characters
  laidOut,       \* computeLines has run on inputText
  layoutOptions, \* the TextLayoutOptions it ran with
  result,        \* its lines, and what breakText's passes found on the way
  \* ---- GlyphGeometryBuilder under Text.create ----
  fontIdCounter,    \* Text.fontIdCounter
  loadedFonts,      \* Text.fontCache: font key -> LoadedFont, for the keys it holds
  globalGlyphCache, \* the GlyphCache instance exported by GlyphCache.ts
  texts,            \* the Text instances made by create, each with its builder
  tessellated,      \* history: the path lists Tessellator.process was called with
  \* ---- PathOptimizer ----
  pathPoints,       \* path.points of the path at hand
  optimizerConfig,  \* PathOptimizer.config
  optimizerStats,   \* PathOptimizer.stats
  pointCounts,      \* history: the point count after each optimizePath call on the path
  \* ---- HarfBuzzLoader under Text ----
  wasmPath,         \* HarfBuzzLoader's wasmPath ("" = null)
  wasmBuffer,       \* HarfBuzzLoader's wasmBuffer ("" = null)
  harfbuzzPromise,  \* HarfBuzzLoader's harfbuzzPromise
  hbInitPromise,    \* Text.hbInitPromise
  hbCalls,          \* history: the calls made so far
  hbAttempts,       \* history: the number of promises getHarfBuzz has made
  hbState,          \* the state of harfbuzzPromise: none, pending, fulfilled or rejected
  hbInits,          \* history: each Text.init call, the promise it returned and its state
  \* ---- breakText under one tolerance after another ----
  paragraph,        \* the text to break
  breakOptions,     \* the options it is broken with, the tolerance apart
  outcomes,         \* history: tolerance -> what computeLines returned for it
  \* ---- BoundaryClusterer ----
  clusterGlyphs,    \* the glyphs of the cluster at hand, each with its position
  boundaryGroups,   \* history: what cluster returned for them, once called
  \* ---- MinHeap ----
  heapItems,        \* MinHeap.heap, the elements by their ids
  heapKeys,         \* element -> the key the comparator reads (0 = never given one)
  heapCalls,        \* history: the number of calls made so far
  extracted,        \* history: the last extractMin call, the heap and keys before it, what it returned
  \* ---- the p5 preload methods ----
  shaperInitialized, \* the module's shaperInitialized flag
  preloadCalls,      \* history: each call of a preload method and the _decrementPreload calls made for it
  \* ---- matching text by pattern ----
  queryText,        \* the text searched (this.text, originalText)
  queryPatterns,    \* the patterns: options.byText, Object.keys(color.byText)
  queryPc,          \* idle, in findByText's loop, in shapeLines' scan, or done
  patternAt,        \* the pattern the for loop is at
  queryIndex,       \* the while loop's index
  queryRanges,      \* findByText's ranges, each [start, end]
  colorBoundaries   \* shapeLines' colorBoundaries

cacheVars == <<nodes, cache, head, tail, stats, clock, lastUse>>

createVars == <<pc, opts, err, fontCache, patternCache, warned, patternFailed, work>>

layoutVars == <<inputText, laidOut, layoutOptions, result>>

geomVars == <<fontIdCounter, loadedFonts, globalGlyphCache, texts, tessellated>>

pathVars == <<pathPoints, optimizerConfig, optimizerStats, pointCounts>>

hbVars == <<wasmPath, wasmBuffer, harfbuzzPromise, hbInitPromise, hbCalls,
           hbAttempts, hbState, hbInits>>

breakVars == <<paragraph, breakOptions, outcomes>>

clusterVars == <<clusterGlyphs, boundaryGroups>>

heapVars == <<heapItems, heapKeys, heapCalls, extracted>>

preloadVars == <<shaperInitialized, preloadCalls>>

queryVars == <<queryText, queryPatterns, queryPc, patternAt, queryIndex,
              queryRanges, colorBoundaries>>

laterVars == <<clusterVars, heapVars, preloadVars, queryVars>>

moreVars == <<geomVars, pathVars, hbVars, breakVars, laterVars>>

othersOfGeom == <<cacheVars, createVars, layoutVars, pathVars, hbVars, breakVars, laterVars>>

othersOfPath == <<cacheVars, createVars, layoutVars, geomVars, hbVars, breakVars, laterVars>>

othersOfHb == <<cacheVars, createVars, layoutVars, geomVars, pathVars, breakVars, laterVars>>

othersOfBreak == <<cacheVars, createVars, layoutVars, geomVars, pathVars, hbVars, laterVars>>

earlierVars == <<cacheVars, createVars, layoutVars, geomVars, pathVars, hbVars, breakVars>>

othersOfCluster == <<earlierVars, heapVars, preloadVars, queryVars>>

othersOfHeap == <<earlierVars, clusterVars, preloadVars, queryVars>>

othersOfQuery == <<earlierVars, clusterVars, heapVars, preloadVars>>

\* the preload methods reach into HarfBuzzLoader through Text
othersOfPreload == <<cacheVars, createVars, layoutVars, geomVars, pathVars, breakVars,
                     clusterVars, heapVars, queryVars>>

vars == <<cacheVars, createVars, layoutVars, moreVars>>

(***************************************************************************)
(* Generic helpers                                                         *)
(***************************************************************************)
Max(a, b) == IF a >= b THEN a ELSE b

Min(a, b) == IF a <= b THEN a ELSE b

RECURSIVE SumSet(_, _)
SumSet(S, f) ==
  IF S = {} THEN 0
  ELSE LET x == CHOOSE y \in S : TRUE IN f[x] + SumSet(S \ {x}, f)

(***************************************************************************)
(* GlyphCache                                                              *)
(***************************************************************************)
\* Bound of the cache model: the number of get/set/clear calls explored
MaxOps == 5

\* The cache keys in use (getCacheKey of three distinct glyphs of one font)
Keys == {1, 2, 3}

\* GlyphData is represented by the lengths of its typed arrays.
\* vertices.length, normals.length, indices.length, indices.BYTES_PER_ELEMENT
GlyphDatas ==
  { [vertices |-> 0,   normals |-> 0,   indices |-> 0,  bpe |-> 2],
    [vertices |-> 36,  normals |-> 36,  indices |-> 12, bpe |-> 2],
    [vertices |-> 108, normals |-> 108, indices |-> 36, bpe |-> 4] }

\* this.maxCacheSize = maxCacheSizeMB * 1024 * 1024, for maxCacheSizeMB = 1000 / 2^20
MaxCacheSize == 1000

calculateMemoryUsage(glyph) ==
  glyph.vertices * 4 + glyph.normals * 4 + glyph.indices * glyph.bpe + 24 + 256

EmptyStats ==
  [hits |-> 0, misses |-> 0, totalGlyphs |-> 0, uniqueGlyphs |-> 0,
   cacheSize |-> 0, saved |-> 0, memoryUsage |-> 0]

\* The list part of the cache state, threaded through the pointer operations.
ListOf(ns, h, t) == [nodes |-> ns, head |-> h, tail |-> t]

addToHead(L, n) ==
  IF L.head = 0
  THEN [L EXCEPT !.head = n, !.tail = n]
  ELSE [L EXCEPT !.nodes[n].next = L.head,
                 !.nodes[L.head].prev = n,
                 !.head = n]

removeNode(L, n) ==
  LET p  == L.nodes[n].prev
      L1 == IF p # 0
            THEN [L EXCEPT !.nodes[p].next = L.nodes[n].next]
            ELSE [L EXCEPT !.head = L.nodes[n].next]
      x  == L1.nodes[n].next
  IN  IF x # 0
      THEN [L1 EXCEPT !.nodes[x].prev = L1.nodes[n].prev]
      ELSE [L1 EXCEPT !.tail = L1.nodes[n].prev]

removeTail(L) == IF L.tail # 0 THEN removeNode(L, L.tail) ELSE L

moveToHead(L, n) ==
  IF n = L.head THEN L ELSE addToHead(removeNode(L, n), n)

\* The state evictLRU works on: the list, the map and the two stats it updates.
RECURSIVE evictLoop(_, _, _)
evictLoop(S, requiredSpace, freedSpace) ==
  IF S.list.tail # 0 /\ freedSpace < requiredSpace
  THEN LET nodeToRemove == S.list.tail
           memoryUsage  == calculateMemoryUsage(S.list.nodes[nodeToRemove].data)
           S1 == [list        |-> removeTail(S.list),
                  cache       |-> [S.cache EXCEPT ![S.list.nodes[nodeToRemove].key] = 0],
                  memoryUsage |-> S.memoryUsage - memoryUsage,
                  cacheSize   |-> S.cacheSize - 1]
       IN  evictLoop(S1, requiredSpace, freedSpace + memoryUsage)
  ELSE S

evictLRU(S, requiredSpace) == evictLoop(S, requiredSpace, 0)

CacheSize(c) == Cardinality({k \in DOMAIN c : c[k] # 0})

\* A GlyphCache instance as one value: its map, list, stats and byte budget.
GlyphCacheOf(ns, c, h, t, st, max) ==
  [nodes |-> ns, cache |-> c, head |-> h, tail |-> t, stats |-> st, maxCacheSize |-> max]

\* get(fontId, glyphId, depth, removeOverlaps) on the instance C: the instance
\* after the call (the call returns node.data iff C.cache[key] # 0)
get(C, key) ==
  IF C.cache[key] # 0
  THEN LET L == moveToHead(ListOf(C.nodes, C.head, C.tail), C.cache[key])
       IN  [C EXCEPT !.nodes = L.nodes, !.head = L.head, !.tail = L.tail,
                     !.stats = [@ EXCEPT !.hits = @ + 1, !.saved = @ + 1,
                                         !.totalGlyphs = @ + 1]]
  ELSE [C EXCEPT !.stats = [@ EXCEPT !.misses = @ + 1, !.totalGlyphs = @ + 1]]

\* set(fontId, glyphId, depth, removeOverlaps, glyph) on the instance C
set(C, key, glyph) ==
  LET memoryUsage == calculateMemoryUsage(glyph)
      S0 == [list        |-> ListOf(C.nodes, C.head, C.tail),
             cache       |-> C.cache,
             memoryUsage |-> C.stats.memoryUsage,
             cacheSize   |-> C.stats.cacheSize]
      S1 == IF C.maxCacheSize > 0 /\ C.stats.memoryUsage + memoryUsage > C.maxCacheSize
            THEN evictLRU(S0, memoryUsage)
            ELSE S0
      n  == Len(C.nodes) + 1
      L1 == [S1.list EXCEPT !.nodes =
                Append(@, [key |-> key, data |-> glyph, prev |-> 0, next |-> 0])]
      L2 == addToHead(L1, n)
      c2 == [S1.cache EXCEPT ![key] = n]
  IN  [C EXCEPT !.nodes = L2.nodes, !.head = L2.head, !.tail = L2.tail,
                !.cache = c2,
                !.stats = [@ EXCEPT !.uniqueGlyphs = CacheSize(c2),
                                    !.cacheSize = S1.cacheSize + 1,
                                    !.memoryUsage = S1.memoryUsage + memoryUsage]]

CacheInit ==
  /\ nodes = << >>
  /\ cache = [k \in Keys |-> 0]
  /\ head = 0
  /\ tail = 0
  /\ stats = EmptyStats
  /\ clock = 0
  /\ lastUse = [k \in Keys |-> 0]

\* get(fontId, glyphId, depth, removeOverlaps): the four arguments form the key
Get(key) ==
  /\ clock < MaxOps
  /\ clock' = clock + 1
  /\ LET C == get(GlyphCacheOf(nodes, cache, head, tail, stats, MaxCacheSize), key)
     IN  /\ nodes' = C.nodes
         /\ head' = C.head
         /\ tail' = C.tail
         /\ stats' = C.stats
  /\ lastUse' = IF cache[key] # 0 THEN [lastUse EXCEPT ![key] = clock + 1] ELSE lastUse
  /\ UNCHANGED cache
  /\ UNCHANGED <<createVars, layoutVars, moreVars>>

\* set(fontId, glyphId, depth, removeOverlaps, glyph)
Set(key, glyph) ==
  /\ clock < MaxOps
  /\ clock' = clock + 1
  /\ LET C == set(GlyphCacheOf(nodes, cache, head, tail, stats, MaxCacheSize), key, glyph)
     IN  /\ nodes' = C.nodes
         /\ head' = C.head
         /\ tail' = C.tail
         /\ cache' = C.cache
         /\ stats' = C.stats
  /\ lastUse' = [lastUse EXCEPT ![key] = clock + 1]
  /\ UNCHANGED <<createVars, layoutVars, moreVars>>

\* clear()
Clear ==
  /\ clock < MaxOps
  /\ clock' = clock + 1
  /\ cache' = [k \in Keys |-> 0]
  /\ head' = 0
  /\ tail' = 0
  /\ stats' = EmptyStats
  /\ UNCHANGED <<nodes, lastUse>>
  /\ UNCHANGED <<createVars, layoutVars, moreVars>>

CacheNext ==
  \/ \E key \in Keys : Get(key)
  \/ \E key \in Keys, glyph \in GlyphDatas : Set(key, glyph)
  \/ Clear

\* The entries resident in the cache are those the key-to-node map holds.
Resident == {k \in Keys : cache[k] # 0}

ResidentBytes ==
  SumSet(Resident, [k \in Keys |->
     IF cache[k] # 0 THEN calculateMemoryUsage(nodes[cache[k]].data) ELSE 0])

(***************************************************************************)
(* Text.create: two calls in flight on one event loop.  Each action is the *)
(* code that runs between two awaits.                                      *)
(***************************************************************************)
Calls == {1, 2}

DEFAULT_MAX_TEXT_LENGTH == 100000

\* options.font: absent, or one of two URLs
NoFont == "none"

Fonts == {"a.ttf", "b.ttf"}

Languages == {"en-us"}

\* options.text is represented by its length; Missing stands for undefined/null
Missing == 0 - 1

\* options.maxTextLength; Unset stands for undefined
Unset == 0 - 1

TextOptions ==
  [font          : Fonts \cup {NoFont},
   textLen       : {Missing, 0, 5, DEFAULT_MAX_TEXT_LENGTH + 1},
   maxTextLength : {Unset, 4},
   width         : {0, 500},            \* layout.width; 0 = absent
   hyphenate     : BOOLEAN,             \* FALSE = layout.hyphenate === false
   language      : Languages]

NoOptions ==
  [font |-> NoFont, textLen |-> Missing, maxTextLength |-> Unset,
   width |-> 0, hyphenate |-> FALSE, language |-> "en-us"]

NoWork == [layout |-> FALSE, hyphenate |-> FALSE, patterns |-> FALSE,
           shaping |-> FALSE, geometry |-> FALSE]

CreateInit ==
  /\ pc = [c \in Calls |-> "idle"]
  /\ opts = [c \in Calls |-> NoOptions]
  /\ err = [c \in Calls |-> ""]
  /\ fontCache = {}
  /\ patternCache = {}
  /\ warned = [c \in Calls |-> FALSE]
  /\ patternFailed = [c \in Calls |-> FALSE]
  /\ work = [c \in Calls |-> NoWork]

\* const fontKey = typeof options.font === 'string' ? options.font : ...
fontKey(o) == o.font

\* createGeometry up to its first await, then prepareHyphenation up to its first
\* await: the outcome [pc, err, opts] for options o with pattern cache pcache.
prepareHyphenation(o, pcache) ==
  IF o.hyphenate /\ o.width # 0
  THEN IF o.language \in pcache
       THEN [pc |-> "validate", err |-> "", opts |-> o]
       ELSE [pc |-> "patternLoading", err |-> "", opts |-> o]
  ELSE [pc |-> "validate", err |-> "", opts |-> o]

createGeometry(o, pcache) ==
  IF o.textLen = Missing
  THEN \* perfLogger.start(..., { textLength: options.text.length, ... })
       [pc |-> "rejected", err |-> "TypeError", opts |-> o]
  ELSE prepareHyphenation(o, pcache)

\* Text.create(options) up to its first await
Create(c, o) ==
  /\ pc[c] = "idle"
  /\ opts' = [opts EXCEPT ![c] = o]
  /\ warned' = [warned EXCEPT ![c] = FALSE]
  /\ patternFailed' = [patternFailed EXCEPT ![c] = FALSE]
  /\ work' = [work EXCEPT ![c] = NoWork]
  /\ IF o.font = NoFont
     THEN /\ pc' = [pc EXCEPT ![c] = "rejected"]
          /\ err' = [err EXCEPT ![c] = "FontRequired"]
     ELSE IF fontKey(o) \in fontCache
     THEN LET r == createGeometry(o, patternCache)
          IN  /\ pc' = [pc EXCEPT ![c] = r.pc]
              /\ err' = [err EXCEPT ![c] = r.err]
     ELSE /\ pc' = [pc EXCEPT ![c] = "fontLoading"]
          /\ err' = [err EXCEPT ![c] = ""]
  /\ UNCHANGED <<fontCache, patternCache>>
  /\ UNCHANGED <<cacheVars, layoutVars, moreVars>>

\* loadAndCacheFont resumes: tempText.loadFont resolved
FontLoaded(c) ==
  /\ pc[c] = "fontLoading"
  /\ fontCache' = fontCache \cup {fontKey(opts[c])}
  /\ LET r == createGeometry(opts[c], patternCache)
     IN  /\ pc' = [pc EXCEPT ![c] = r.pc]
         /\ err' = [err EXCEPT ![c] = r.err]
  /\ UNCHANGED <<opts, patternCache, warned, patternFailed, work>>
  /\ UNCHANGED <<cacheVars, layoutVars, moreVars>>

\* tempText.loadFont rejected (fetch, decompression or parse failed)
FontLoadFailed(c) ==
  /\ pc[c] = "fontLoading"
  /\ pc' = [pc EXCEPT ![c] = "rejected"]
  /\ err' = [err EXCEPT ![c] = "FontLoadError"]
  /\ UNCHANGED <<opts, fontCache, patternCache, warned, patternFailed, work>>
  /\ UNCHANGED <<cacheVars, layoutVars, moreVars>>

\* prepareHyphenation resumes: loadPattern resolved
PatternLoaded(c) ==
  /\ pc[c] = "patternLoading"
  /\ patternCache' = patternCache \cup {opts[c].language}
  /\ pc' = [pc EXCEPT ![c] = "validate"]
  /\ UNCHANGED <<opts, err, fontCache, warned, patternFailed, work>>
  /\ UNCHANGED <<cacheVars, layoutVars, moreVars>>

\* A faulty variant of PatternLoadFailed, without the catch block: the
\* rejection of loadPattern rejects the call.
PatternLoadRethrown(c) ==
  /\ pc[c] = "patternLoading"
  /\ patternFailed' = [patternFailed EXCEPT ![c] = TRUE]
  /\ pc' = [pc EXCEPT ![c] = "rejected"]
  /\ err' = [err EXCEPT ![c] = "PatternLoadError"]
  /\ UNCHANGED <<opts, fontCache, patternCache, warned, work>>
  /\ UNCHANGED <<cacheVars, layoutVars, moreVars>>

\* prepareHyphenation resumes in its catch block: loadPattern rejected
PatternLoadFailed(c) ==
  /\ pc[c] = "patternLoading"
  /\ patternFailed' = [patternFailed EXCEPT ![c] = TRUE]
  /\ warned' = [warned EXCEPT ![c] = TRUE]
  /\ opts' = [opts EXCEPT ![c].hyphenate = FALSE]
  /\ pc' = [pc EXCEPT ![c] = "validate"]
  /\ UNCHANGED <<err, fontCache, patternCache, work>>
  /\ UNCHANGED <<cacheVars, layoutVars, moreVars>>

\* validateOptions(options): "" when the options pass
validateOptions(o) ==
  LET maxLength == IF o.maxTextLength = Unset THEN DEFAULT_MAX_TEXT_LENGTH
                   ELSE o.maxTextLength
  IN  IF o.textLen = Missing \/ o.textLen = 0 THEN "TextRequired"
      ELSE IF o.textLen > maxLength THEN "TextTooLong"
      ELSE ""

\* createGeometry resumes after prepareHyphenation and runs to its end:
\* validateOptions, prepareLayout, shapeLines, buildInstancedGeometry
ValidateAndBuild(c) ==
  /\ pc[c] = "validate"
  /\ LET e == validateOptions(opts[c])
     IN  IF e # ""
         THEN /\ pc' = [pc EXCEPT ![c] = "rejected"]
              /\ err' = [err EXCEPT ![c] = e]
              /\ UNCHANGED work
         ELSE /\ pc' = [pc EXCEPT ![c] = "done"]
              /\ work' = [work EXCEPT ![c] =
                   [layout    |-> TRUE,
                    hyphenate |-> opts[c].hyphenate,
                    patterns  |-> opts[c].hyphenate /\ opts[c].width # 0
                                    /\ opts[c].language \in patternCache,
                    shaping   |-> TRUE,
                    geometry  |-> TRUE]]
              /\ UNCHANGED err
  /\ UNCHANGED <<opts, fontCache, patternCache, warned, patternFailed>>
  /\ UNCHANGED <<cacheVars, layoutVars, moreVars>>

\* the caller has its result (or its error) and may call again
Return(c) ==
  /\ pc[c] \in {"done", "rejected"}
  /\ pc' = [pc EXCEPT ![c] = "idle"]
  /\ opts' = [opts EXCEPT ![c] = NoOptions]
  /\ err' = [err EXCEPT ![c] = ""]
  /\ warned' = [warned EXCEPT ![c] = FALSE]
  /\ patternFailed' = [patternFailed EXCEPT ![c] = FALSE]
  /\ work' = [work EXCEPT ![c] = NoWork]
  /\ UNCHANGED <<fontCache, patternCache>>
  /\ UNCHANGED <<cacheVars, layoutVars, moreVars>>

CreateNext ==
  \/ \E c \in Calls, o \in TextOptions : Create(c, o)
  \/ \E c \in Calls : FontLoaded(c)
  \/ \E c \in Calls : FontLoadFailed(c)
  \/ \E c \in Calls : PatternLoaded(c)
  \/ \E c \in Calls : PatternLoadFailed(c)
  \/ \E c \in Calls : ValidateAndBuild(c)
  \/ \E c \in Calls : Return(c)


(***************************************************************************)
(* Line breaking (LineBreak.ts, TextLayout.ts).  A string is a sequence of *)
(* characters; indices into it are 0-based as in the source, so character  *)
(* i of the source string s is s[i + 1] here.                              *)
(***************************************************************************)
NL == "\n"

\* stands for U+00AD SOFT HYPHEN
SHY == "~"

HYPHEN == "-"

\* /\s/ on the characters in use
IsSpace(ch) == ch \in {" ", NL}

\* TextMeasurer.measureTextWidth with letterSpacing = 0: the sum of the advances
\* HarfBuzz returns; the font in use has these advances (font units), "i"
\* being its narrow letter
Advance(ch) ==
  CASE ch = " "    -> 60
    [] ch = "i"    -> 20
    [] ch = NL     -> 0
    [] ch = SHY    -> 0
    [] ch = HYPHEN -> 20
    [] OTHER       -> 60

RECURSIVE measureText(_)
measureText(s) ==
  IF s = << >> THEN 0 ELSE Advance(Head(s)) + measureText(Tail(s))

\* String.prototype.toLowerCase on the characters in use
toLowerCase(ch) == IF ch = "A" THEN "a" ELSE ch

\* s.substring(from, to) with 0-based from, exclusive to
Substring(s, from, to) ==
  IF to <= from THEN << >> ELSE SubSeq(s, from + 1, Min(to, Len(s)))

RECURSIVE Flatten(_)
Flatten(ss) == IF ss = << >> THEN << >> ELSE Head(ss) \o Flatten(Tail(ss))

\* Number.POSITIVE_INFINITY stands as a number larger than any finite quantity
\* of the model; sums and differences with finite quantities stay above INF \div 2
INF == 1000 * 1000 * 1000

IsInf(x) == x >= INF \div 2

ItemTypes == {"BOX", "GLUE", "PENALTY", "DISCRETIONARY"}

FORCED_BREAK == 0 - INF

\* Every item carries every field; those its type does not have are 0 / empty.
Item(type, width, text, originIndex) ==
  [type |-> type, width |-> width, text |-> text, originIndex |-> originIndex,
   stretch |-> 0, shrink |-> 0, penalty |-> 0, flagged |-> FALSE,
   preBreak |-> << >>, postBreak |-> << >>, noBreak |-> << >>, preBreakWidth |-> 0]

Box(text, originIndex) == Item("BOX", measureText(text), text, originIndex)

\* 60 * SPACE_STRETCH_RATIO = 30 and 60 * SPACE_SHRINK_RATIO = 20 per space:
\* widths are multiples of 6, so width * 0.5 and width * (1 / 3) are integers
Glue(text, originIndex) ==
  LET width == measureText(text)
  IN  [Item("GLUE", width, text, originIndex) EXCEPT
         !.stretch = width \div 2, !.shrink = width \div 3]

\* the discretionary of an explicit hyphen
ExplicitHyphen(originIndex, exHyphenPenalty) ==
  [Item("DISCRETIONARY", measureText(<<HYPHEN>>), <<HYPHEN>>, originIndex) EXCEPT
     !.preBreak = <<HYPHEN>>, !.noBreak = <<HYPHEN>>,
     !.preBreakWidth = measureText(<<HYPHEN>>),
     !.penalty = exHyphenPenalty, !.flagged = TRUE]

\* the discretionary of a soft hyphen or of a hyphenation point
SoftHyphen(originIndex, hyphenPenalty) ==
  [Item("DISCRETIONARY", 0, << >>, originIndex) EXCEPT
     !.preBreak = <<HYPHEN>>,
     !.preBreakWidth = measureText(<<HYPHEN>>),
     !.penalty = hyphenPenalty, !.flagged = TRUE]

\* A pattern trie is given by its nodes that carry patterns: the string that
\* leads to the node from the root, and the node's patterns array.  The walk of
\* findHyphenationPoints reaches such a node from position i exactly when the
\* padded word continues with that string at i.
EnUsTrie == { [path |-> <<"a", "a">>, patterns |-> <<0, 1, 0>>] }

MatchesAt(padded, path, i) ==
  /\ i + Len(path) <= Len(padded)
  /\ \A j \in 1 .. Len(path) : padded[i + j] = path[j]

RECURSIVE MaxOf(_)
MaxOf(S) ==
  IF S = {} THEN 0
  ELSE LET x == CHOOSE y \in S : TRUE IN Max(x, MaxOf(S \ {x}))

RECURSIVE SelectSeq2(_, _, _, _)
\* the elements e of seq with lo <= e and hi >= e... kept in order
SelectSeq2(seq, lo, wordLen, rmin) ==
  IF seq = << >> THEN << >>
  ELSE LET rest == SelectSeq2(Tail(seq), lo, wordLen, rmin)
       IN  IF Head(seq) >= lo /\ wordLen - Head(seq) >= rmin
           THEN <<Head(seq)>> \o rest ELSE rest

RECURSIVE OddPoints(_, _, _)
\* for (let i = from; i < to; i++) if (points[i] % 2 === 1) push(i - 1)
OddPoints(points, i, to) ==
  IF i >= to THEN << >>
  ELSE (IF points[i] % 2 = 1 THEN <<i - 1>> ELSE << >>) \o OddPoints(points, i + 1, to)

\* a filter that keeps every point
keepAllPoints(hyphenPoints, wordLength, lefthyphenmin, righthyphenmin) ==
  hyphenPoints

\* hyphenPoints.filter(pos => pos >= lefthyphenmin && word.length - pos >= righthyphenmin)
filterPoints(hyphenPoints, wordLength, lefthyphenmin, righthyphenmin) ==
  SelectSeq2(hyphenPoints, lefthyphenmin, wordLength, righthyphenmin)

\* findHyphenationPoints(word, language, availablePatterns, lefthyphenmin,
\* righthyphenmin); patternTrie is availablePatterns[language], {} when absent
findHyphenationPoints(word, patternTrie, lefthyphenmin, righthyphenmin) ==
  IF patternTrie = {} THEN << >>
  ELSE
    LET lowerWord  == [i \in 1 .. Len(word) |-> toLowerCase(word[i])]
        paddedWord == <<".">> \o lowerWord \o <<".">>
        n          == Len(paddedWord)
        points == [pos \in 0 .. n - 1 |->
                    MaxOf({ x[1].patterns[pos - x[2] + 1] :
                            x \in { y \in patternTrie \X (0 .. pos) :
                                     /\ pos - y[2] < Len(y[1].patterns)
                                     /\ MatchesAt(paddedWord, y[1].path, y[2]) } })]
        hyphenPoints == OddPoints(points, 2, n - 2)
    IN  filterPoints(hyphenPoints, Len(word), lefthyphenmin, righthyphenmin)

\* text.match(/\S+|\s+/g): the maximal runs of spaces and of non-spaces, each
\* with the index it starts at
RECURSIVE tokenize(_, _, _)
tokenize(text, i, toks) ==
  IF i > Len(text) THEN toks
  ELSE IF toks # << >> /\ IsSpace(toks[Len(toks)].chars[1]) = IsSpace(text[i])
       THEN tokenize(text, i + 1,
                     [toks EXCEPT ![Len(toks)].chars = Append(@, text[i])])
       ELSE tokenize(text, i + 1,
                     Append(toks, [start |-> i - 1, chars |-> <<text[i]>>]))

\* token.split(/(-)/) without its empty segments: each hyphen alone, and the
\* runs between hyphens, each with the index it starts at
RECURSIVE splitOnHyphens(_, _, _, _)
splitOnHyphens(token, start, i, segs) ==
  IF i > Len(token) THEN segs
  ELSE IF /\ token[i] # HYPHEN
          /\ segs # << >>
          /\ segs[Len(segs)].chars[1] # HYPHEN
       THEN splitOnHyphens(token, start, i + 1,
                           [segs EXCEPT ![Len(segs)].chars = Append(@, token[i])])
       ELSE splitOnHyphens(token, start, i + 1,
                           Append(segs, [start |-> start + i - 1, chars |-> <<token[i]>>]))

\* the loop over segment.split('­'); part is the part being read and
\* runningIndex the index in the segment at which it starts
RECURSIVE softHyphenItems(_, _, _, _, _, _)
softHyphenItems(segment, segmentIndex, i, part, runningIndex, ctx) ==
  LET box == IF part = << >> THEN << >>
             ELSE <<Box(part, segmentIndex + runningIndex)>>
  IN  IF i > Len(segment) THEN box
      ELSE IF segment[i] = SHY
      THEN box \o <<SoftHyphen(segmentIndex + runningIndex + Len(part), ctx.hyphenPenalty)>>
               \o softHyphenItems(segment, segmentIndex, i + 1, << >>,
                                  runningIndex + Len(part) + 1, ctx)
      ELSE softHyphenItems(segment, segmentIndex, i + 1, Append(part, segment[i]),
                           runningIndex, ctx)

\* the loop over hyphenPoints, then the last part
RECURSIVE patternItems(_, _, _, _, _)
patternItems(segment, segmentIndex, hyphenPoints, lastPoint, ctx) ==
  IF hyphenPoints = << >>
  THEN <<Box(Substring(segment, lastPoint, Len(segment)), segmentIndex + lastPoint)>>
  ELSE LET point == Head(hyphenPoints)
       IN  << Box(Substring(segment, lastPoint, point), segmentIndex + lastPoint),
              SoftHyphen(segmentIndex + point, ctx.hyphenPenalty) >>
           \o patternItems(segment, segmentIndex, Tail(hyphenPoints), point, ctx)

\* the items of one segment of a word
segmentItems(seg, hyphenate, patternTrie, lefthyphenmin, righthyphenmin, ctx) ==
  IF seg.chars = <<HYPHEN>>
  THEN <<ExplicitHyphen(seg.start, ctx.exHyphenPenalty)>>
  ELSE IF \E i \in 1 .. Len(seg.chars) : seg.chars[i] = SHY
  THEN softHyphenItems(seg.chars, seg.start, 1, << >>, 0, ctx)
  ELSE IF hyphenate /\ Len(seg.chars) >= lefthyphenmin + righthyphenmin
  THEN LET hyphenPoints == findHyphenationPoints(seg.chars, patternTrie,
                                                 lefthyphenmin, righthyphenmin)
       IN  IF hyphenPoints # << >>
           THEN patternItems(seg.chars, seg.start, hyphenPoints, 0, ctx)
           ELSE <<Box(seg.chars, seg.start)>>
  ELSE <<Box(seg.chars, seg.start)>>

RECURSIVE wordItems(_, _, _, _, _, _)
wordItems(segs, hyphenate, patternTrie, lefthyphenmin, righthyphenmin, ctx) ==
  IF segs = << >> THEN << >>
  ELSE segmentItems(Head(segs), hyphenate, patternTrie,
                    lefthyphenmin, righthyphenmin, ctx)
       \o wordItems(Tail(segs), hyphenate, patternTrie,
                    lefthyphenmin, righthyphenmin, ctx)

RECURSIVE tokenItems(_, _, _, _, _, _)
tokenItems(toks, hyphenate, patternTrie, lefthyphenmin, righthyphenmin, ctx) ==
  IF toks = << >> THEN << >>
  ELSE LET token == Head(toks)
       IN  (IF IsSpace(token.chars[1])
            THEN <<Glue(token.chars, token.start)>>
            ELSE wordItems(splitOnHyphens(token.chars, token.start, 1, << >>),
                           hyphenate, patternTrie, lefthyphenmin, righthyphenmin, ctx))
           \o tokenItems(Tail(toks), hyphenate, patternTrie,
                         lefthyphenmin, righthyphenmin, ctx)

itemizeParagraph(text, hyphenate, patternTrie, lefthyphenmin, righthyphenmin, ctx) ==
  tokenItems(tokenize(text, 1, << >>), hyphenate, patternTrie,
             lefthyphenmin, righthyphenmin, ctx)

\* itemizeText: the paragraph's items, then the final glue and the forced penalty
itemizeText(text, hyphenate, patternTrie, lefthyphenmin, righthyphenmin, ctx) ==
  itemizeParagraph(text, hyphenate, patternTrie, lefthyphenmin, righthyphenmin, ctx)
  \o << [Item("GLUE", 0, << >>, Len(text)) EXCEPT !.stretch = INF],
        [Item("PENALTY", 0, << >>, Len(text)) EXCEPT !.penalty = FORCED_BREAK] >>

\* FitnessClass
TIGHT == 0
NORMAL == 1
LOOSE == 2
VERY_LOOSE == 3

FITNESS_TIGHT_THRESHOLD == 12
FITNESS_NORMAL_THRESHOLD == 99
INF_BAD == 10000

\* NaN, which Infinity - Infinity yields; every comparison with it is false
NaN == 0 - 2 * INF

IsNaN(x) == x = NaN

\* a - b on numbers that may be infinite
Minus(a, b) ==
  IF IsInf(a) /\ IsInf(b) THEN NaN
  ELSE IF IsInf(a) THEN INF
  ELSE a - b

Abs(x) == IF x < 0 THEN 0 - x ELSE x

\* items[i] and arr[i] with the source's 0-based index
At(arr, i) == arr[i + 1]

\* badness(t, s); s is Infinity for a line that holds the final glue
badness(t, s) ==
  IF IsNaN(s) THEN NaN
  ELSE IF t = 0 THEN 0
  ELSE IF s <= 0 THEN INF_BAD
  ELSE LET r == IF IsInf(s) THEN 0
                ELSE IF t <= 7230584 THEN (t * 297) \div s
                ELSE IF s >= 1663497 THEN t \div (s \div 297)
                ELSE t
       IN  IF r > 1290 THEN INF_BAD
           ELSE (r * r * r + 131072) \div 262144

computeFitnessClass(bad, stretching) ==
  IF stretching
  THEN IF ~IsNaN(bad) /\ bad <= FITNESS_TIGHT_THRESHOLD THEN NORMAL
       ELSE IF ~IsNaN(bad) /\ bad <= FITNESS_NORMAL_THRESHOLD THEN LOOSE
       ELSE VERY_LOOSE
  ELSE IF ~IsNaN(bad) /\ bad <= FITNESS_TIGHT_THRESHOLD THEN NORMAL
       ELSE TIGHT

\* the loop of computeCumulativeWidths; acc holds the four arrays filled up
\* to index i.  The arrays stretches and shrinks get no entry after a penalty.
RECURSIVE cumulate(_, _, _)
cumulate(items, i, acc) ==
  IF i >= Len(items) THEN acc
  ELSE
    LET item == At(items, i)
        w    == Append(acc.widths, At(acc.widths, i) + item.width)
    IN  cumulate(items, i + 1,
          IF item.type = "PENALTY"
          THEN [widths    |-> w,
                stretches |-> Append(acc.stretches, "undefined"),
                shrinks   |-> Append(acc.shrinks, "undefined"),
                minWidths |-> Append(acc.minWidths, At(acc.minWidths, i))]
          ELSE IF item.type = "GLUE"
          THEN [widths    |-> w,
                stretches |-> Append(acc.stretches, At(acc.stretches, i) + item.stretch),
                shrinks   |-> Append(acc.shrinks, At(acc.shrinks, i) + item.shrink),
                minWidths |-> Append(acc.minWidths,
                                     At(acc.minWidths, i) + Max(0, item.width - item.shrink))]
          ELSE [widths    |-> w,
                stretches |-> Append(acc.stretches, At(acc.stretches, i)),
                shrinks   |-> Append(acc.shrinks, At(acc.shrinks, i)),
                minWidths |-> Append(acc.minWidths, At(acc.minWidths, i) + item.width)])

computeCumulativeWidths(items) ==
  cumulate(items, 0, [widths |-> <<0>>, stretches |-> <<0>>,
                      shrinks |-> <<0>>, minWidths |-> <<0>>])

RECURSIVE penaltyWidths(_, _, _)
penaltyWidths(items, i, to) ==
  IF i >= to THEN 0
  ELSE (IF At(items, i).type = "PENALTY" THEN At(items, i).width ELSE 0)
       + penaltyWidths(items, i + 1, to)

\* a ratio is a pair <<numerator, denominator>> with a positive denominator
Ratio(n, d) == <<n, d>>

RatioBelowMinusOne(r) == r[1] < 0 - r[2]

\* the ratio computeAdjustmentRatio returns
ratioOf(adjustment, totalStretch, totalShrink) ==
  IF adjustment > 0 /\ ~IsNaN(totalStretch) /\ totalStretch > 0
  THEN IF IsInf(totalStretch) THEN Ratio(0, 1) ELSE Ratio(adjustment, totalStretch)
  ELSE IF adjustment < 0 /\ totalShrink > 0 THEN Ratio(adjustment, totalShrink)
  ELSE IF adjustment = 0 THEN Ratio(0, 1)
  ELSE IF adjustment > 0 THEN Ratio(3, 1) ELSE Ratio(0 - 1, 1)

adjustmentData(lineWidth, totalWidth, totalStretch, totalShrink) ==
  [ratio |-> ratioOf(lineWidth - totalWidth, totalStretch, totalShrink),
   adjustment |-> lineWidth - totalWidth, stretch |-> totalStretch,
   shrink |-> totalShrink, totalWidth |-> totalWidth]

\* the width the item at lineEnd adds to the line that breaks at it
breakWidth(items, lineEnd) ==
  IF lineEnd < Len(items) /\ At(items, lineEnd).type = "PENALTY"
  THEN At(items, lineEnd).width
  ELSE IF lineEnd < Len(items) /\ At(items, lineEnd).type = "DISCRETIONARY"
  THEN At(items, lineEnd).preBreakWidth
  ELSE 0

\* computeAdjustmentRatio on its fast path (cumulativeWidths is always passed)
computeAdjustmentRatio(items, lineStart, lineEnd, lineWidth, cumulativeWidths) ==
  adjustmentData(
    lineWidth,
    At(cumulativeWidths.widths, lineEnd) - At(cumulativeWidths.widths, lineStart)
      - penaltyWidths(items, lineStart, lineEnd) + breakWidth(items, lineEnd),
    Minus(At(cumulativeWidths.stretches, lineEnd),
          At(cumulativeWidths.stretches, lineStart)),
    At(cumulativeWidths.shrinks, lineEnd) - At(cumulativeWidths.shrinks, lineStart))

(***************************************************************************)
(* ActiveNodeList.  all holds every node ever inserted, a node's id being  *)
(* its index in all; activeList is the array of the ids of the active      *)
(* nodes; nodesByKey is the lookup of a node of all by position and        *)
(* fitness, of which insert keeps at most one.  previous = 0 is null.      *)
(***************************************************************************)
EmptyActiveNodeList == [all |-> << >>, activeList |-> << >>]

findExisting(s, position, fitness) ==
  LET ids == { id \in 1 .. Len(s.all) :
                 s.all[id].position = position /\ s.all[id].fitness = fitness }
  IN  IF ids = {} THEN 0 ELSE CHOOSE id \in ids : TRUE

insert(s, node) ==
  LET existing == findExisting(s, node.position, node.fitness)
  IN  IF existing # 0 /\ node.totalDemerits < s.all[existing].totalDemerits
      THEN [s EXCEPT !.all[existing].totalDemerits = node.totalDemerits,
                     !.all[existing].previous = node.previous,
                     !.all[existing].totalWidth = node.totalWidth]
      ELSE IF existing = 0
      THEN [all |-> Append(s.all, node),
            activeList |-> Append(s.activeList, Len(s.all) + 1)]
      ELSE s

activeListIndex(s, id) ==
  CHOOSE idx \in 1 .. Len(s.activeList) : s.activeList[idx] = id

\* swap-and-pop removal
deactivateNode(s, id) ==
  IF s.all[id].active /\ \E idx \in 1 .. Len(s.activeList) : s.activeList[idx] = id
  THEN LET idx  == activeListIndex(s, id)
           last == Len(s.activeList)
           swapped == IF idx # last
                      THEN [s.activeList EXCEPT ![idx] = s.activeList[last]]
                      ELSE s.activeList
       IN  [all |-> [s.all EXCEPT ![id].active = FALSE],
            activeList |-> SubSeq(swapped, 1, last - 1)]
  ELSE s

IsFlagged(item) ==
  (item.type = "PENALTY" \/ item.type = "DISCRETIONARY") /\ item.flagged

\* considerBreak's badness of the line whose adjustment data is a
lineBadness(a, emergencyStretch) ==
  IF a.adjustment > 0
  THEN IF IsNaN(a.stretch)
       THEN NaN
       ELSE IF IsInf(a.stretch)
       THEN badness(a.adjustment, INF)
       ELSE IF a.stretch + emergencyStretch <= 0
       THEN INF_BAD + 1
       ELSE badness(a.adjustment, a.stretch + emergencyStretch)
  ELSE IF a.adjustment < 0
  THEN IF a.shrink <= 0 THEN INF_BAD + 1
       ELSE IF 0 - a.adjustment > a.shrink THEN INF_BAD + 1
       ELSE badness(0 - a.adjustment, a.shrink)
  ELSE 0

\* let demerits = Math.abs(d) >= 10000 ? 100000000 : d * d, for d a number
saturated(d) == IF Abs(d) >= 10000 THEN 100000000 ELSE d * d

\* the penalty's share: + p * p for p > 0, - p * p for FORCED_BREAK < p < 0
penaltyDemerits(p) ==
  IF p > 0 THEN p * p
  ELSE IF p < 0 /\ p > FORCED_BREAK THEN 0 - p * p
  ELSE 0

\* considerBreak's demerits of a break that is not forced, at breakItem, for
\* the line from node, of badness bad (a number) and class fitnessClass
lineDemerits(context, items, breakItem, node, bad, fitnessClass) ==
  saturated(context.linePenalty + bad)
  + penaltyDemerits(IF breakItem.type = "PENALTY" \/ breakItem.type = "DISCRETIONARY"
                    THEN breakItem.penalty ELSE 0)
  + (IF /\ IsFlagged(breakItem)
        /\ node.position > 0
        /\ IsFlagged(At(items, node.position))
     THEN context.doubleHyphenDemerits ELSE 0)
  + (IF Abs(fitnessClass - node.fitness) > 1 THEN context.adjDemerits ELSE 0)

\* the end of considerBreak's loop body: the node of this breakpoint and
\* fitness class is updated if there is one (existingNode # 0), or inserted
recordBreak(s, breakpoint, id, fitnessClass, totalDemerits, totalWidth, existingNode) ==
  IF existingNode # 0
  THEN IF totalDemerits < s.all[existingNode].totalDemerits
       THEN [s EXCEPT !.all[existingNode].totalDemerits = totalDemerits,
                      !.all[existingNode].previous = id,
                      !.all[existingNode].totalWidth = totalWidth]
       ELSE s
  ELSE insert(s, [position |-> breakpoint, line |-> s.all[id].line + 1,
                  fitness |-> fitnessClass, totalDemerits |-> totalDemerits,
                  totalWidth |-> totalWidth, previous |-> id, active |-> TRUE])

\* considerBreak's loop body from the fitness class on.  A NaN badness occurs
\* at the forced break only, where the demerits are set to 0 whatever they were.
classifyBreak(e, s, breakpoint, id, a, bad, isForcedBreak, fitnessClass) ==
  recordBreak(s, breakpoint, id, fitnessClass,
              s.all[id].totalDemerits
              + (IF isForcedBreak THEN 0
                 ELSE lineDemerits(e.context, e.items, At(e.items, breakpoint),
                                   s.all[id], bad, fitnessClass)),
              a.totalWidth,
              findExisting(s, breakpoint, fitnessClass))

\* considerBreak's loop body from the two tests that skip a node on
rateBreak(e, s, breakpoint, id, a, bad, isForcedBreak) ==
  IF ~isForcedBreak /\ RatioBelowMinusOne(a.ratio) THEN s
  ELSE IF ~isForcedBreak /\ ~IsNaN(bad) /\ bad > e.threshold THEN s
  ELSE classifyBreak(e, s, breakpoint, id, a, bad, isForcedBreak,
                     computeFitnessClass(bad, a.adjustment > 0))

\* considerBreak's loop body once the adjustment data a of the line is known
adjustBreak(e, s, breakpoint, id, a) ==
  rateBreak(e, s, breakpoint, id, a, lineBadness(a, e.emergencyStretch),
            At(e.items, breakpoint).type = "PENALTY"
              /\ At(e.items, breakpoint).penalty <= FORCED_BREAK)

\* The body of considerBreak's loop for the active node at index i (1-based)
\* of the live active list; e holds considerBreak's other arguments.
considerNode(e, s, breakpoint, i) ==
  IF ~s.all[s.activeList[i]].active THEN s
  ELSE adjustBreak(e, s, breakpoint, s.activeList[i],
                   computeAdjustmentRatio(e.items, s.all[s.activeList[i]].position,
                                          breakpoint, e.lineWidth, e.cumulativeWidths))

\* for (let i = 0; i < allActiveNodes.length; i++): the length is read anew in
\* every round, and the array is the list that insert appends to
RECURSIVE considerLoop(_, _, _, _)
considerLoop(e, s, breakpoint, i) ==
  IF i > Len(s.activeList) THEN s
  ELSE considerLoop(e, considerNode(e, s, breakpoint, i), breakpoint, i + 1)

considerBreak(e, s, breakpoint) == considerLoop(e, s, breakpoint, 1)

\* for (let i = activeNodes.length - 1; i >= 0; i--)
RECURSIVE deactivateLoop(_, _, _, _, _)
deactivateLoop(s, i, currentPosition, lineWidth, minWidths) ==
  IF i < 1 THEN s
  ELSE LET id   == s.activeList[i]
           node == s.all[id]
           minWidth == At(minWidths, currentPosition) - At(minWidths, node.position)
       IN  deactivateLoop(
             IF node.active /\ minWidth > lineWidth THEN deactivateNode(s, id) ELSE s,
             i - 1, currentPosition, lineWidth, minWidths)

deactivateNodes(s, currentPosition, lineWidth, minWidths) ==
  deactivateLoop(s, Len(s.activeList), currentPosition, lineWidth, minWidths)

IsBreak(items, i) ==
  \/ At(items, i).type = "PENALTY" /\ At(items, i).penalty < INF \div 2
  \/ At(items, i).type = "DISCRETIONARY" /\ At(items, i).penalty < INF \div 2
  \/ At(items, i).type = "GLUE" /\ i > 0 /\ At(items, i - 1).type = "BOX"

\* one round of findBreakpoints' loop over the items
breakStep(e, s, i) ==
  deactivateNodes(IF IsBreak(e.items, i) THEN considerBreak(e, s, i) ELSE s,
                  i, e.lineWidth, e.cumulativeWidths.minWidths)

\* for (let i = 0; i < items.length; i++).  s.all always holds the initial
\* node: reading it has every round evaluated before the next one starts
RECURSIVE breakLoop(_, _, _)
breakLoop(e, s, i) ==
  IF i >= Len(e.items) \/ s.all = << >> THEN s
  ELSE breakLoop(e, breakStep(e, s, i), i + 1)

\* looseness = 0: the first node of the active list with the lowest demerits;
\* lowest is Infinity as long as bestNode is null (0)
RECURSIVE lowestDemerits(_, _, _, _)
lowestDemerits(s, i, lowest, bestNode) ==
  IF i > Len(s.activeList) THEN bestNode
  ELSE LET id == s.activeList[i]
       IN  IF s.all[id].active /\ (bestNode = 0 \/ s.all[id].totalDemerits < lowest)
           THEN lowestDemerits(s, i + 1, s.all[id].totalDemerits, id)
           ELSE lowestDemerits(s, i + 1, lowest, bestNode)

\* looseness # 0: the second loop; b holds bestNode, actualLooseness and
\* fewestDemerits, which is Infinity as long as bestNode is null (0)
RECURSIVE looseLoop(_, _, _, _, _)
looseLoop(s, i, bestLine, looseness, b) ==
  IF i > Len(s.activeList) THEN b
  ELSE LET id == s.activeList[i]
           node == s.all[id]
           lineDiff == node.line - bestLine
       IN  IF ~node.active THEN looseLoop(s, i + 1, bestLine, looseness, b)
           ELSE IF \/ lineDiff < b.actualLooseness /\ looseness <= lineDiff
                   \/ lineDiff > b.actualLooseness /\ looseness >= lineDiff
           THEN looseLoop(s, i + 1, bestLine, looseness,
                          [bestNode |-> id, actualLooseness |-> lineDiff,
                           fewestDemerits |-> node.totalDemerits])
           ELSE IF /\ lineDiff = b.actualLooseness
                   /\ (b.bestNode = 0 \/ node.totalDemerits < b.fewestDemerits)
           THEN looseLoop(s, i + 1, bestLine, looseness,
                          [b EXCEPT !.bestNode = id,
                                    !.fewestDemerits = node.totalDemerits])
           ELSE looseLoop(s, i + 1, bestLine, looseness, b)

\* while (bestNode && bestNode.position > 0) breakpoints.unshift(...)
RECURSIVE traceBack(_, _, _)
traceBack(s, bestNode, breakpoints) ==
  IF bestNode = 0 \/ s.all[bestNode].position <= 0 THEN breakpoints
  ELSE traceBack(s, s.all[bestNode].previous,
                 <<s.all[bestNode].position>> \o breakpoints)

InitialNode ==
  [position |-> 0, line |-> 0, fitness |-> NORMAL, totalDemerits |-> 0,
   totalWidth |-> 0, previous |-> 0, active |-> TRUE]

\* the active list at the end of findBreakpoints' loop over the items
activeNodesAfter(items, lineWidth, threshold, emergencyStretch, context) ==
  breakLoop([items |-> items, lineWidth |-> lineWidth, threshold |-> threshold,
             emergencyStretch |-> emergencyStretch,
             cumulativeWidths |-> computeCumulativeWidths(items),
             context |-> context],
            insert(EmptyActiveNodeList, InitialNode), 0)

\* the breakpoints of the node the second loop found, whatever its line count
closestBreaks(s, looseness, isFinalPass, b) == traceBack(s, b.bestNode, << >>)

\* looseness # 0, after the second loop has left b
looseEnd(s, looseness, isFinalPass, b) ==
  IF ~isFinalPass /\ b.actualLooseness # looseness /\ b.bestNode # 0
  THEN << >>
  ELSE traceBack(s, b.bestNode, << >>)

\* looseness # 0, after the first loop has found the node of lowest demerits
looseFrom(s, looseness, isFinalPass, base) ==
  looseEnd(s, looseness, isFinalPass,
           looseLoop(s, 1, IF base = 0 THEN 0 ELSE s.all[base].line, looseness,
                     [bestNode |-> 0, actualLooseness |-> 0, fewestDemerits |-> INF]))

\* findBreakpoints after its loop over the items has left the active list s
chooseBreakpoints(s, looseness, isFinalPass) ==
  IF looseness = 0
  THEN traceBack(s, lowestDemerits(s, 1, INF, 0), << >>)
  ELSE looseFrom(s, looseness, isFinalPass, lowestDemerits(s, 1, INF, 0))

findBreakpoints(items, lineWidth, threshold, looseness, isFinalPass, emergencyStretch, context) ==
  chooseBreakpoints(
    activeNodesAfter(items, lineWidth, threshold, emergencyStretch, context),
    looseness, isFinalPass)

UndefinedRatio == Ratio(0, 0)

LineInfo(text, originalStart, originalEnd, xOffset, adjustmentRatio, isLastLine, naturalWidth, endedWithHyphen) ==
  [text |-> text, originalStart |-> originalStart, originalEnd |-> originalEnd,
   xOffset |-> xOffset, adjustmentRatio |-> adjustmentRatio,
   isLastLine |-> isLastLine, naturalWidth |-> naturalWidth,
   endedWithHyphen |-> endedWithHyphen]

\* the inner loop of createLines over the items lineStart .. breakpoint - 1;
\* acc holds lineTextParts (joined), originalStart, originalEnd, naturalWidth
RECURSIVE lineItems(_, _, _, _)
lineItems(items, j, breakpoint, acc) ==
  IF j >= breakpoint THEN acc
  ELSE
    LET item == At(items, j)
        skip == \/ item.type = "PENALTY" /\ item.text = << >>
                \/ item.type = "DISCRETIONARY" /\ item.noBreak = << >>
        itemEnd == item.originIndex + Len(item.text) - 1
        shown == IF item.text # << >> THEN item.text
                 ELSE IF item.type = "DISCRETIONARY" THEN item.noBreak
                 ELSE << >>
    IN  lineItems(items, j + 1, breakpoint,
          IF skip THEN acc
          ELSE [text |-> acc.text \o shown,
                originalStart |->
                  IF acc.originalStart = 0 - 1 \/ item.originIndex < acc.originalStart
                  THEN item.originIndex ELSE acc.originalStart,
                originalEnd |-> Max(acc.originalEnd, itemEnd),
                naturalWidth |-> acc.naturalWidth + item.width])

\* align === 'justify' && isLastLine ? (direction === 'rtl' ? 'right' : 'left') : align
effectiveAlignOf(align, direction, isLastLine) ==
  IF align = "justify" /\ isLastLine
  THEN (IF direction = "rtl" THEN "right" ELSE "left")
  ELSE align

\* naturalWidth and lineWidth are multiples of 20: the half is exact
xOffsetOf(effectiveAlign, lineWidth, naturalWidth) ==
  IF effectiveAlign = "center" THEN (lineWidth - naturalWidth) \div 2
  ELSE IF effectiveAlign = "right" THEN lineWidth - naturalWidth
  ELSE 0

\* what the break item adds to the line: its hyphen, the hyphen's width, and
\* the end of the line's range
hyphenates(breakItem) ==
  \/ breakItem.type = "PENALTY" /\ breakItem.flagged
  \/ breakItem.type = "DISCRETIONARY" /\ breakItem.preBreak # << >>

\* the LineInfo pushed for the line with the items body before breakItem
lineOf(body, breakItem, effectiveAlign, lineWidth, adjustmentRatio) ==
  LineInfo(
    IF breakItem.type = "PENALTY" /\ breakItem.flagged THEN body.text \o <<HYPHEN>>
    ELSE IF hyphenates(breakItem) THEN body.text \o breakItem.preBreak
    ELSE body.text,
    body.originalStart,
    IF hyphenates(breakItem) THEN breakItem.originIndex - 1 ELSE body.originalEnd,
    xOffsetOf(effectiveAlign, lineWidth,
              IF breakItem.type = "PENALTY" /\ breakItem.flagged
              THEN body.naturalWidth + breakItem.width
              ELSE IF hyphenates(breakItem)
              THEN body.naturalWidth + breakItem.preBreakWidth
              ELSE body.naturalWidth),
    adjustmentRatio,
    FALSE,
    IF breakItem.type = "PENALTY" /\ breakItem.flagged
    THEN body.naturalWidth + breakItem.width
    ELSE IF hyphenates(breakItem) THEN body.naturalWidth + breakItem.preBreakWidth
    ELSE body.naturalWidth,
    hyphenates(breakItem) /\ breakItem.flagged)

\* const isLastLine = willHaveFinalLine ? false : i === breakpoints.length - 1
isLastLineAt(items, breakpoints, i) ==
  IF At(breakpoints, Len(breakpoints) - 1) + 1 < Len(items) - 1
  THEN FALSE
  ELSE i = Len(breakpoints) - 1

\* the line that ends at breakpoints[i] and starts at item lineStart
lineAt(items, breakpoints, i, lineStart, lineWidth, align, direction, cumulativeWidths) ==
  lineOf(lineItems(items, lineStart, At(breakpoints, i),
                   [text |-> << >>, originalStart |-> 0 - 1,
                    originalEnd |-> 0 - 1, naturalWidth |-> 0]),
         At(items, At(breakpoints, i)),
         effectiveAlignOf(align, direction, isLastLineAt(items, breakpoints, i)),
         lineWidth,
         IF /\ effectiveAlignOf(align, direction,
                                isLastLineAt(items, breakpoints, i)) = "justify"
            /\ ~isLastLineAt(items, breakpoints, i)
         THEN computeAdjustmentRatio(items, lineStart, At(breakpoints, i), lineWidth,
                                     cumulativeWidths).ratio
         ELSE Ratio(0, 1))

RECURSIVE breakpointLines(_, _, _, _, _, _, _, _)
breakpointLines(items, breakpoints, i, lineStart, lineWidth, align, direction, cumulativeWidths) ==
  IF i >= Len(breakpoints) THEN << >>
  ELSE <<lineAt(items, breakpoints, i, lineStart, lineWidth, align, direction,
                cumulativeWidths)>>
       \o breakpointLines(items, breakpoints, i + 1, At(breakpoints, i) + 1,
                          lineWidth, align, direction, cumulativeWidths)

\* the loop of the final line over the items lineStart .. items.length - 2
RECURSIVE finalLineItems(_, _, _)
finalLineItems(items, j, acc) ==
  IF j >= Len(items) - 1 THEN acc
  ELSE
    LET item == At(items, j)
    IN  finalLineItems(items, j + 1,
          IF item.type = "PENALTY" THEN acc
          ELSE [text |-> acc.text \o item.text,
                originalStart |->
                  IF acc.originalStart = 0 - 1 \/ item.originIndex < acc.originalStart
                  THEN item.originIndex ELSE acc.originalStart,
                originalEnd |-> Max(acc.originalEnd, item.originIndex),
                naturalWidth |-> acc.naturalWidth + item.width])

setLast(lines) ==
  [k \in 1 .. Len(lines) |->
     IF k = Len(lines) THEN [lines[k] EXCEPT !.isLastLine = TRUE]
     ELSE IF k = Len(lines) - 1 THEN [lines[k] EXCEPT !.isLastLine = FALSE]
     ELSE lines[k]]

\* the final line, of the items final
finalLineOf(final, align, direction, lineWidth) ==
  LineInfo(final.text, final.originalStart, final.originalEnd,
           xOffsetOf(effectiveAlignOf(align, direction, TRUE), lineWidth,
                     final.naturalWidth),
           Ratio(0, 1), TRUE, final.naturalWidth, FALSE)

\* createLines after its loop over the breakpoints has left lines and lineStart
finishLines(items, lines, lineStart, lineWidth, align, direction) ==
  IF lineStart < Len(items) - 1
  THEN setLast(Append(lines,
         finalLineOf(finalLineItems(items, lineStart,
                                    [text |-> << >>, originalStart |-> 0 - 1,
                                     originalEnd |-> 0 - 1, naturalWidth |-> 0]),
                     align, direction, lineWidth)))
  ELSE setLast(lines)

createLines(text, items, breakpoints, lineWidth, align, direction, cumulativeWidths) ==
  IF breakpoints = << >>
  THEN <<LineInfo(text, 0, Len(text) - 1, 0, UndefinedRatio, FALSE, 0 - 1, FALSE)>>
  ELSE finishLines(items,
                   breakpointLines(items, breakpoints, 0, 0, lineWidth, align,
                                   direction, cumulativeWidths),
                   At(breakpoints, Len(breakpoints) - 1) + 1,
                   lineWidth, align, direction)

\* the body of hasSingleWordLines' outer loop, for the line that ends at
\* breakpoints[i]
RECURSIVE countGlue(_, _, _)
countGlue(items, j, to) ==
  IF j >= to THEN 0
  ELSE (IF At(items, j).type = "GLUE" THEN 1 ELSE 0) + countGlue(items, j + 1, to)

RECURSIVE sumWidths(_, _, _)
sumWidths(items, j, to) ==
  IF j >= to THEN 0
  ELSE (IF At(items, j).type # "PENALTY" THEN At(items, j).width ELSE 0)
       + sumWidths(items, j + 1, to)

RECURSIVE singleWordFrom(_, _, _, _, _)
singleWordFrom(items, breakpoints, i, lineStart, lineWidth) ==
  IF i >= Len(breakpoints) - 1 THEN FALSE
  \* glueCount === 0 && totalWidth > 0 &&
  \* totalWidth / lineWidth < SINGLE_WORD_WIDTH_THRESHOLD (0.5)
  ELSE IF /\ countGlue(items, lineStart, At(breakpoints, i)) = 0
          /\ sumWidths(items, lineStart, At(breakpoints, i)) > 0
          /\ 2 * sumWidths(items, lineStart, At(breakpoints, i)) < lineWidth
  THEN TRUE
  ELSE singleWordFrom(items, breakpoints, i + 1, At(breakpoints, i) + 1, lineWidth)

hasSingleWordLines(items, breakpoints, lineWidth) ==
  singleWordFrom(items, breakpoints, 0, 0, lineWidth)

MAX_ITERATIONS == 5

\* a split that does not split
noSplit(text, current) == <<current \o text>>

\* text.split('\n')
RECURSIVE splitLines(_, _)
splitLines(text, current) ==
  IF text = << >> THEN <<current>>
  ELSE IF Head(text) = NL THEN <<current>> \o splitLines(Tail(text), << >>)
  ELSE splitLines(Tail(text), Append(current, Head(text)))

Includes(text, ch) == \E i \in 1 .. Len(text) : text[i] = ch

\* allItems.filter(item => item.type !== DISCRETIONARY || item.penalty !== hyphenPenalty)
RECURSIVE withoutHyphenation(_, _)
withoutHyphenation(items, hyphenPenalty) ==
  IF items = << >> THEN << >>
  ELSE (IF Head(items).type # "DISCRETIONARY" \/ Head(items).penalty # hyphenPenalty
        THEN <<Head(items)>> ELSE << >>)
       \o withoutHyphenation(Tail(items), hyphenPenalty)

\* A round of breakText's while loop runs up to four passes.  What a round
\* has found so far is the record r: currentItems, breaks, and the passes run
\* (number and breakpoints found).
passResult(r, pass, currentItems, breaks) ==
  [items |-> currentItems, breaks |-> breaks,
   passes |-> Append(r.passes, [pass |-> pass, breaks |-> breaks])]

NoPass == [items |-> << >>, breaks |-> << >>, passes |-> << >>]

\* first pass: no hyphenation, pretolerance
firstPass(o, currentItems, context) ==
  passResult(NoPass, 1, currentItems,
             findBreakpoints(currentItems, o.width, o.pretolerance, o.looseness,
                             FALSE, 0, context))

\* the second pass run whatever the first pass returned
secondPassAnyway(o, useHyphenation, allItems, context, r) ==
  IF useHyphenation
  THEN passResult(r, 2, allItems,
                  findBreakpoints(allItems, o.width, o.tolerance, o.looseness,
                                  FALSE, 0, context))
  ELSE r

\* second pass: with hyphenation, tolerance
secondPass(o, useHyphenation, allItems, context, r) ==
  IF r.breaks = << >> /\ useHyphenation
  THEN passResult(r, 2, allItems,
                  findBreakpoints(allItems, o.width, o.tolerance, o.looseness,
                                  FALSE, 0, context))
  ELSE r

\* final pass: emergency stretch
finalPass(o, allItems, context, currentEmergencyStretch, r) ==
  IF r.breaks = << >>
  THEN passResult(r, 3, allItems,
                  findBreakpoints(allItems, o.width, INF_BAD + 1, o.looseness,
                                  TRUE, currentEmergencyStretch, context))
  ELSE r

\* the pass with infinite tolerance
forcePass(o, context, currentEmergencyStretch, r) ==
  IF r.breaks = << >>
  THEN passResult(r, 4, r.items,
                  findBreakpoints(r.items, o.width, INF, o.looseness,
                                  TRUE, currentEmergencyStretch, context))
  ELSE r

\* the end of a round: the lines created from the breaks (<< >> when there
\* are none) and whether the loop goes on to another round
roundEnd(o, r) ==
  [passes |-> r.passes,
   breaks |-> r.breaks,
   items  |-> r.items,
   lines  |-> IF r.breaks # << >>
              THEN createLines(o.text, r.items, r.breaks, o.width, o.align,
                               o.direction, computeCumulativeWidths(r.items))
              ELSE << >>,
   again  |-> /\ r.breaks # << >>
              /\ ~o.disableSingleWordDetection
              /\ Len(r.breaks) > 1
              /\ hasSingleWordLines(r.items, r.breaks, o.width)]

iterationOf(o, useHyphenation, allItems, context, currentEmergencyStretch) ==
  roundEnd(o,
    forcePass(o, context, currentEmergencyStretch,
      finalPass(o, allItems, context, currentEmergencyStretch,
        secondPass(o, useHyphenation, allItems, context,
          firstPass(o, IF useHyphenation
                       THEN withoutHyphenation(allItems, context.hyphenPenalty)
                       ELSE allItems,
                    context)))))

\* resultLines (<< >> for null), the passes of every round so far, and the
\* breakpoints and items of the last round, after a round that ended as it
afterRound(r, it) ==
  [lines  |-> IF it.breaks # << >> THEN it.lines ELSE r.lines,
   passes |-> Append(r.passes, it.passes),
   breaks |-> it.breaks,
   items  |-> it.items]

\* one round of the search and no repair of what it found
iterateOnce(o, useHyphenation, allItems, context, iteration, currentEmergencyStretch, r) ==
  afterRound(r, iterationOf(o, useHyphenation, allItems, context,
                            currentEmergencyStretch))

\* while (iteration < MAX_ITERATIONS)
RECURSIVE iterate(_, _, _, _, _, _, _)
continue(o, useHyphenation, allItems, context, iteration, currentEmergencyStretch, r, it) ==
  IF it.again
  THEN iterate(o, useHyphenation, allItems, context, iteration + 1,
               \* width * SINGLE_WORD_EMERGENCY_STRETCH_INCREMENT (0.1)
               currentEmergencyStretch + o.width \div 10, afterRound(r, it))
  ELSE afterRound(r, it)

iterate(o, useHyphenation, allItems, context, iteration, currentEmergencyStretch, r) ==
  IF iteration >= MAX_ITERATIONS THEN r
  ELSE continue(o, useHyphenation, allItems, context, iteration,
                currentEmergencyStretch, r,
                iterationOf(o, useHyphenation, allItems, context,
                            currentEmergencyStretch))

contextOf(o) ==
  [linePenalty |-> o.linepenalty, adjDemerits |-> o.adjdemerits,
   doubleHyphenDemerits |-> o.doublehyphendemerits,
   hyphenPenalty |-> o.hyphenpenalty, exHyphenPenalty |-> o.exhyphenpenalty]

\* let useHyphenation = hyphenate, unless the language has no patterns
useHyphenationOf(o) == o.hyphenate /\ o.hyphenationPatterns # {}

initialEmergencyStretchOf(o) ==
  IF o.autoEmergencyStretchPercent # Unset /\ o.width # 0
  THEN (o.width * o.autoEmergencyStretchPercent) \div 100
  ELSE IF ~useHyphenationOf(o) /\ o.emergencyStretch = 0 /\ o.width # 0
  \* width * DEFAULT_EMERGENCY_STRETCH_NO_HYPHEN (0.1)
  THEN o.width \div 10
  ELSE o.emergencyStretch

\* breakText without its fallback line
withoutFallback(o, r) ==
  [lines |-> r.lines,
   paragraphs |-> <<[text |-> o.text, offset |-> 0, passes |-> r.passes,
                     breaks |-> r.breaks, items |-> r.items,
                     fallback |-> r.lines = << >>]>>,
   warned |-> o.hyphenate /\ ~useHyphenationOf(o)]

\* what breakText returns after its while loop has left r
paragraphEnd(o, r) ==
  [lines |-> IF r.lines # << >> THEN r.lines
             ELSE <<LineInfo(o.text, 0, Len(o.text) - 1, 0, Ratio(0, 1), TRUE,
                             measureText(o.text), FALSE)>>,
   paragraphs |-> <<[text |-> o.text, offset |-> 0, passes |-> r.passes,
                     breaks |-> r.breaks, items |-> r.items,
                     fallback |-> r.lines = << >>]>>,
   warned |-> o.hyphenate /\ ~useHyphenationOf(o)]

\* breakText on a text for which it does not split paragraphs
breakParagraph(o) ==
  IF o.width = 0 \/ IsInf(o.width)
  THEN [lines |-> <<LineInfo(o.text, 0, Len(o.text) - 1, 0, UndefinedRatio, TRUE,
                             measureText(o.text), FALSE)>>,
        paragraphs |-> << >>,
        warned |-> o.hyphenate /\ ~useHyphenationOf(o)]
  ELSE paragraphEnd(o,
         iterate(o, useHyphenationOf(o),
                 itemizeText(o.text, useHyphenationOf(o), o.hyphenationPatterns,
                             o.lefthyphenmin, o.righthyphenmin, contextOf(o)),
                 contextOf(o), 0, initialEmergencyStretchOf(o),
                 [lines |-> << >>, passes |-> << >>, breaks |-> << >>,
                  items |-> << >>]))

shiftLines(lines, offset) ==
  [k \in 1 .. Len(lines) |->
     [lines[k] EXCEPT !.originalStart = @ + offset, !.originalEnd = @ + offset]]

shiftParagraphs(ps, offset) ==
  [k \in 1 .. Len(ps) |-> [ps[k] EXCEPT !.offset = @ + offset]]

\* the lines of a paragraph, this, before those of the paragraphs after it
joinParagraphs(this, rest, currentOriginOffset) ==
  [lines |-> shiftLines(this.lines, currentOriginOffset) \o rest.lines,
   paragraphs |-> shiftParagraphs(this.paragraphs, currentOriginOffset)
                  \o rest.paragraphs,
   warned |-> this.warned \/ rest.warned]

EmptyParagraph(currentOriginOffset) ==
  [lines |-> <<LineInfo(<< >>, currentOriginOffset, currentOriginOffset, 0,
                        UndefinedRatio, TRUE, 0, FALSE)>>,
   paragraphs |-> << >>, warned |-> FALSE]

\* the loop of breakText over the paragraphs of a text with newlines
RECURSIVE paragraphLoop(_, _, _)
paragraphLoop(o, paragraphs, currentOriginOffset) ==
  IF paragraphs = << >>
  THEN [lines |-> << >>, paragraphs |-> << >>, warned |-> FALSE]
  ELSE joinParagraphs(
         IF Head(paragraphs) = << >>
         THEN EmptyParagraph(0)
         ELSE breakParagraph([o EXCEPT !.text = Head(paragraphs),
                                       !.respectExistingBreaks = FALSE]),
         paragraphLoop(o, Tail(paragraphs),
                       currentOriginOffset + Len(Head(paragraphs)) + 1),
         currentOriginOffset)

\* LineBreak.breakText.  Besides the lines it returns, the result records, for
\* every paragraph that went through the passes, what the passes found.
breakText(o) ==
  IF o.respectExistingBreaks /\ Includes(o.text, NL)
  THEN paragraphLoop(o, splitLines(o.text, << >>), 0)
  ELSE breakParagraph(o)

\* the lines of TextLayout.computeLines for a text without width
RECURSIVE plainLines(_, _)
plainLines(linesArray, currentIndex) ==
  IF linesArray = << >> THEN << >>
  ELSE LET line == Head(linesArray)
       IN  <<LineInfo(line, currentIndex, currentIndex + Len(line) - 1, 0,
                      UndefinedRatio, FALSE, 0 - 1, FALSE)>>
           \o plainLines(Tail(linesArray), currentIndex + Len(line) + 1)

\* TextLayout.computeLines; width = 0 stands for a width that is absent
computeLines(o) ==
  IF o.width # 0
  THEN breakText(o)
  ELSE [lines |-> plainLines(splitLines(o.text, << >>), 0),
        paragraphs |-> << >>, warned |-> FALSE]

(***************************************************************************)
(* The layout machine: a text is typed character by character and then     *)
(* laid out by TextLayout.computeLines under some layout options.          *)
(***************************************************************************)
MaxLen == 4

Chars == {"a", " ", HYPHEN, NL, SHY}

\* no width; the width of a hyphen; the width of a letter; the width of
\* three letters and a hyphen; Infinity
Widths == {0, 20, 60, 200, INF}

\* Text.prepareLayout's defaults and LineBreak.breakText's, for the options
\* that the inputs below do not vary
DefaultLayout ==
  [text |-> << >>, width |-> 0, align |-> "left", direction |-> "ltr",
   hyphenate |-> TRUE, hyphenationPatterns |-> EnUsTrie,
   respectExistingBreaks |-> TRUE,
   tolerance |-> 200, pretolerance |-> 100, emergencyStretch |-> 0,
   autoEmergencyStretchPercent |-> Unset,
   lefthyphenmin |-> 2, righthyphenmin |-> 4,
   linepenalty |-> 10, adjdemerits |-> 10000, hyphenpenalty |-> 50,
   exhyphenpenalty |-> 50, doublehyphendemerits |-> 10000, looseness |-> 0,
   disableSingleWordDetection |-> FALSE]

HyphenMins == {<<2, 2>>, <<1, 3>>}

LayoutOptions ==
  { [DefaultLayout EXCEPT !.width = w, !.align = al, !.hyphenate = h,
                          !.respectExistingBreaks = reb,
                          !.lefthyphenmin = m[1], !.righthyphenmin = m[2]] :
      w \in Widths, al \in {"left"}, h \in BOOLEAN, reb \in BOOLEAN,
      m \in HyphenMins }

NoResult == [lines |-> << >>, paragraphs |-> << >>, warned |-> FALSE]

LayoutInit ==
  /\ inputText = << >>
  /\ laidOut = FALSE
  /\ layoutOptions = DefaultLayout
  /\ result = NoResult

\* one more character of the text
Type(ch) ==
  /\ ~laidOut
  /\ Len(inputText) < MaxLen
  /\ inputText' = Append(inputText, ch)
  /\ UNCHANGED <<laidOut, layoutOptions, result>>
  /\ UNCHANGED <<cacheVars, createVars, moreVars>>

\* textLayout.computeLines({text, ...layout})
Layout(o) ==
  /\ ~laidOut
  /\ Len(inputText) > 0
  /\ laidOut' = TRUE
  /\ layoutOptions' = [o EXCEPT !.text = inputText]
  /\ result' = computeLines([o EXCEPT !.text = inputText])
  /\ UNCHANGED inputText
  /\ UNCHANGED <<cacheVars, createVars, moreVars>>

\* the next text
NewText ==
  /\ laidOut
  /\ inputText' = << >>
  /\ laidOut' = FALSE
  /\ layoutOptions' = DefaultLayout
  /\ result' = NoResult
  /\ UNCHANGED <<cacheVars, createVars, moreVars>>

LayoutNext ==
  \/ \E ch \in Chars : Type(ch)
  \/ \E o \in LayoutOptions : Layout(o)
  \/ NewText

(***************************************************************************)
(* GlyphGeometryBuilder under Text.create                                  *)
(*                                                                         *)
(* A font file is the sequence of its bytes.  A path list is represented   *)
(* by the number of its paths, a GlyphData by the lengths of its arrays.   *)
(* Coordinates are integers, so a comparison within OVERLAP_EPSILON        *)
(* (0.001) is a comparison with <= or >=.                                  *)
(***************************************************************************)
\* Bound of the geometry model: the number of Text.create calls explored
MaxTexts == 2

\* The byte budget of one megabyte, scaled down (1024 * 1024 in GlyphCache's constructor)
BytesPerMB == 1000

DEFAULT_CACHE_SIZE_MB == 250

\* undefined, for an ArrayBuffer
NoBuffer == << >>

\* the bytes of the font files: two of three bytes, and two of four bytes that
\* differ in their second byte alone
FontBuffers == {<<0, 1, 0>>, <<0, 2, 0>>, <<0, 1, 0, 0>>, <<0, 2, 0, 0>>}

GlyphIds == {1, 2, 3}

\* the values of maxCacheSizeMB a caller passes
CacheSizesMB == {Unset, 1}

\* generateFontContentHash(buffer): the joined numbers, as a sequence; without a
\* buffer the call increments Text.fontIdCounter and returns it
generateFontContentHash(buffer, counter) ==
  IF buffer # NoBuffer
  THEN <<buffer[1], buffer[(Len(buffer) \div 2) + 1], buffer[Len(buffer)], Len(buffer)>>
  ELSE <<counter + 1>>

\* FontLoader.loadFont: the LoadedFont it returns has the HarfBuzz objects made
\* of the bytes (face) and no _buffer field
loadFont(fontBuffer) == [face |-> fontBuffer, buffer |-> NoBuffer]

\* getCacheKey: the depth is rounded to three decimals, integers stay as they are
getCacheKey(fontId, glyphId, depth, removeOverlaps) == <<fontId, glyphId, depth, removeOverlaps>>

\* every key a Text.create call of the model can form
GeomKeys ==
  {getCacheKey(<<"font", h>>, g, 1, FALSE) :
     h \in {<<n>> : n \in 1..(MaxTexts + 1)} \cup
           {generateFontContentHash(b, 0) : b \in FontBuffers},
     g \in GlyphIds}

\* new GlyphCache(maxCacheSizeMB)
NewGlyphCache(maxCacheSizeMB) ==
  GlyphCacheOf(<< >>, [k \in GeomKeys |-> 0], 0, 0, EmptyStats,
               IF maxCacheSizeMB > 0 THEN maxCacheSizeMB * BytesPerMB ELSE 0)

\* getStats(): sets stats.uniqueGlyphs and returns the stats with the hit rate,
\* here the ratio hits * 100 / totalGlyphs as a pair
getStats(C) ==
  [hits |-> C.stats.hits, misses |-> C.stats.misses, totalGlyphs |-> C.stats.totalGlyphs,
   uniqueGlyphs |-> CacheSize(C.cache), cacheSize |-> C.stats.cacheSize,
   memoryUsage |-> C.stats.memoryUsage,
   hitRate |-> IF C.stats.totalGlyphs > 0
               THEN <<C.stats.hits * 100, C.stats.totalGlyphs>>
               ELSE <<0, 1>>]

\* getContoursForGlyph(glyphId): glyph 1 is a base letter of two contours, glyph 2 a
\* mark of one contour drawn over the top of the base, glyph 3 has no outline
getContoursForGlyph(glyphId) ==
  CASE glyphId = 1 -> [glyphId |-> 1, paths |-> 2,
                       bounds |-> [minX |-> 0, minY |-> 0, maxX |-> 10, maxY |-> 10]]
    [] glyphId = 2 -> [glyphId |-> 2, paths |-> 1,
                       bounds |-> [minX |-> 2, minY |-> 8, maxX |-> 8, maxY |-> 14]]
    [] OTHER       -> [glyphId |-> glyphId, paths |-> 0,
                       bounds |-> [minX |-> 0, minY |-> 0, maxX |-> 0, maxY |-> 0]]

ShapedGlyph(g, x, y) == [g |-> g, x |-> x, y |-> y]

\* The clusters TextShaper hands over: a letter, a space, a letter with its mark
\* above it, two letters side by side in one cluster, two zero-width glyphs in one place
Clusters ==
  { [text |-> "A",  glyphs |-> <<ShapedGlyph(1, 0, 0)>>],
    [text |-> " ",  glyphs |-> <<ShapedGlyph(3, 0, 0)>>],
    [text |-> "A^", glyphs |-> <<ShapedGlyph(1, 0, 0), ShapedGlyph(2, 0, 0)>>],
    [text |-> "A'", glyphs |-> <<ShapedGlyph(1, 0, 0), ShapedGlyph(2, 12, 0)>>],
    [text |-> "zz", glyphs |-> <<ShapedGlyph(3, 0, 0), ShapedGlyph(3, 0, 0)>>] }

\* One line of one cluster, or of the letter and one more cluster
ClusterLines ==
  {<<c>> : c \in Clusters} \cup {<<c, d>> : c \in {k \in Clusters : k.text = "A"}, d \in Clusters}

getWorldBounds(contours, position) ==
  [minX |-> contours.bounds.minX + position.x, minY |-> contours.bounds.minY + position.y,
   maxX |-> contours.bounds.maxX + position.x, maxY |-> contours.bounds.maxY + position.y]

\* clusterSweepLine unites two glyphs when one starts while the other is active
\* (starts sort before ends at the same x) and their boxes meet in y
united(bounds1, bounds2) ==
  /\ bounds1.minX <= bounds2.maxX /\ bounds2.minX <= bounds1.maxX
  /\ bounds1.minY <= bounds2.maxY /\ bounds1.maxY >= bounds2.minY

\* boundaryGroups.some(group => group.length > 1), false with separateGlyphs
hasOverlaps(cluster, separateGlyphs) ==
  /\ ~separateGlyphs
  /\ \E i, j \in 1..Len(cluster.glyphs) :
       /\ i < j
       /\ united(getWorldBounds(getContoursForGlyph(cluster.glyphs[i].g), cluster.glyphs[i]),
                 getWorldBounds(getContoursForGlyph(cluster.glyphs[j].g), cluster.glyphs[j]))

\* Tessellator.process: no triangles without paths, else some for each path
process(paths) == IF paths = 0 THEN 0 ELSE paths

\* extrudeAndPackage: the GlyphData of the triangles
extrudeAndPackage(triangles) ==
  [vertices |-> 36 * triangles, normals |-> 36 * triangles, indices |-> 12 * triangles, bpe |-> 2]

RECURSIVE clusterPaths(_, _)
clusterPaths(glyphs, i) ==
  IF i > Len(glyphs) THEN 0
  ELSE getContoursForGlyph(glyphs[i].g).paths + clusterPaths(glyphs, i + 1)

wordCacheGet(wordCache, clusterKey) == {e \in wordCache : e.key = clusterKey}

\* The builder at work: B = [fontId, cache, wordCache, glyphInfos, tessellated]

\* the cluster-level branch of buildInstancedGeometry
clusterLevel(B, cluster, depth, removeOverlaps) ==
  LET clusterKey == <<B.fontId, cluster.text, depth, removeOverlaps>>
      found  == wordCacheGet(B.wordCache, clusterKey)
      paths  == clusterPaths(cluster.glyphs, 1)
      cachedCluster == IF found # {} THEN (CHOOSE e \in found : TRUE).data
                       ELSE extrudeAndPackage(process(paths))
      infos  == [i \in 1..Len(cluster.glyphs) |->
                   [g |-> cluster.glyphs[i].g, vertexCount |-> cachedCluster.vertices \div 3,
                    level |-> "cluster"]]
  IN  [B EXCEPT !.wordCache = IF found # {} THEN @
                              ELSE @ \cup {[key |-> clusterKey, data |-> cachedCluster]},
                !.tessellated = IF found # {} THEN @
                                ELSE Append(@, [paths |-> paths, glyphs |-> cluster.glyphs]),
                !.glyphInfos = @ \o infos]

\* the glyph-level branch for a glyph without paths: a glyph info and nothing else
skipGlyph(B, glyph) ==
  [B EXCEPT !.glyphInfos = Append(@, [g |-> glyph.g, vertexCount |-> 0, level |-> "glyph"])]

\* the glyph-level branch for a glyph with paths: cache.get, and on a miss
\* tessellateGlyph and cache.set
cacheGlyph(B, glyph, depth, removeOverlaps) ==
  LET glyphContours == getContoursForGlyph(glyph.g)
      key  == getCacheKey(B.fontId, glyph.g, depth, removeOverlaps)
      hit  == B.cache.cache[key] # 0
      C1   == get(B.cache, key)
      cachedGlyph == IF hit THEN B.cache.nodes[B.cache.cache[key]].data
                     ELSE extrudeAndPackage(process(glyphContours.paths))
  IN  [B EXCEPT !.cache = IF hit THEN C1 ELSE set(C1, key, cachedGlyph),
                !.tessellated = IF hit THEN @
                                ELSE Append(@, [paths |-> glyphContours.paths,
                                                glyphs |-> <<glyph>>]),
                !.glyphInfos =
                  Append(@, [g |-> glyph.g, vertexCount |-> cachedGlyph.vertices \div 3,
                             level |-> "glyph"])]

\* one turn of the glyph-level loop of buildInstancedGeometry
glyphLevel(B, glyph, depth, removeOverlaps) ==
  IF getContoursForGlyph(glyph.g).paths = 0
  THEN skipGlyph(B, glyph)
  ELSE cacheGlyph(B, glyph, depth, removeOverlaps)

RECURSIVE glyphLoop(_, _, _, _, _)
glyphLoop(B, glyphs, i, depth, removeOverlaps) ==
  IF i > Len(glyphs) THEN B
  ELSE glyphLoop(glyphLevel(B, glyphs[i], depth, removeOverlaps), glyphs, i + 1,
                 depth, removeOverlaps)

RECURSIVE buildInstancedGeometry(_, _, _, _, _, _)
buildInstancedGeometry(B, line, n, depth, removeOverlaps, separateGlyphs) ==
  IF n > Len(line) THEN B
  ELSE LET cluster == line[n]
           B1 == IF hasOverlaps(cluster, separateGlyphs)
                 THEN clusterLevel(B, cluster, depth, removeOverlaps)
                 ELSE glyphLoop(B, cluster.glyphs, 1, depth, removeOverlaps)
       IN  buildInstancedGeometry(B1, line, n + 1, depth, removeOverlaps, separateGlyphs)

\* createGeometry(options), from the builder on, of a new Text whose font id is fontId: the builder takes
\* a cache of its own if the options it is given name a size, else the global one
makeGeometry(options, fontId) ==
  LET ownCache == options.maxCacheSizeMB > 0
      B0 == [fontId |-> fontId,
             cache |-> IF ownCache THEN NewGlyphCache(options.maxCacheSizeMB)
                       ELSE globalGlyphCache,
             wordCache |-> {}, glyphInfos |-> << >>, tessellated |-> << >>]
      B  == buildInstancedGeometry(B0, options.clusters, 1, options.depth,
                                   options.removeOverlaps, FALSE)
  IN  [ownCache |-> ownCache, builder |-> B, cacheStats |-> getStats(B.cache)]

\* the options createGeometry receives from create: { font, maxCacheSizeMB, ...geometryOptions }
geometryOptions(options) == [options EXCEPT !.maxCacheSizeMB = Unset]

GeomInit ==
  /\ fontIdCounter = 0
  /\ loadedFonts = {}
  /\ globalGlyphCache = NewGlyphCache(DEFAULT_CACHE_SIZE_MB)
  /\ texts = << >>
  /\ tessellated = << >>

\* Text.create(options) with a font given as bytes and a valid text, shaped to clusters
CreateText(font, clusters, maxCacheSizeMB) ==
  /\ Len(texts) < MaxTexts
  /\ LET options == [font |-> font, clusters |-> clusters, maxCacheSizeMB |-> maxCacheSizeMB,
                     depth |-> 1, removeOverlaps |-> FALSE]
         baseFontKey == <<"buffer", generateFontContentHash(options.font, fontIdCounter)>>
         cached  == {f \in loadedFonts : f.key = baseFontKey}
         loadedFont == IF cached # {} THEN (CHOOSE f \in cached : TRUE).font
                       ELSE loadFont(options.font)
         contentHash == generateFontContentHash(loadedFont.buffer, fontIdCounter)
         currentFontId == <<"font", contentHash>>
         made == makeGeometry(geometryOptions(options), currentFontId)
     IN  /\ loadedFonts' = loadedFonts \cup {[key |-> baseFontKey, font |-> loadedFont]}
         /\ fontIdCounter' = IF loadedFont.buffer = NoBuffer THEN fontIdCounter + 1
                             ELSE fontIdCounter
         /\ globalGlyphCache' = IF made.ownCache THEN globalGlyphCache
                                ELSE [made.builder.cache EXCEPT
                                        !.stats.uniqueGlyphs = made.cacheStats.uniqueGlyphs]
         /\ tessellated' = tessellated \o made.builder.tessellated
         /\ texts' = Append(texts,
              [font |-> font, clusters |-> clusters, maxCacheSizeMB |-> maxCacheSizeMB,
               fontKey |-> baseFontKey, face |-> loadedFont.face,
               fontId |-> currentFontId, ownCache |-> made.ownCache,
               cache |-> IF made.ownCache THEN made.builder.cache ELSE NewGlyphCache(0),
               wordCache |-> made.builder.wordCache,
               glyphInfos |-> made.builder.glyphInfos,
               tessellated |-> made.builder.tessellated,
               cacheStats |-> made.cacheStats, cleared |-> FALSE])
  /\ UNCHANGED othersOfGeom

\* clear() on the instance C
clear(C) ==
  [C EXCEPT !.cache = [k \in DOMAIN C.cache |-> 0], !.head = 0, !.tail = 0,
            !.stats = EmptyStats]

\* result.clearCache(): GlyphGeometryBuilder.clearCache of the text's builder
ClearCache(t) ==
  /\ t \in 1..Len(texts)
  /\ texts' = [texts EXCEPT ![t].wordCache = {},
                            ![t].cleared = TRUE,
                            ![t].cache = IF texts[t].ownCache THEN clear(@) ELSE @]
  /\ globalGlyphCache' = IF texts[t].ownCache THEN globalGlyphCache
                         ELSE clear(globalGlyphCache)
  /\ UNCHANGED <<fontIdCounter, loadedFonts, tessellated>>
  /\ UNCHANGED othersOfGeom

GeomNext ==
  \/ \E font \in FontBuffers, clusters \in ClusterLines, maxCacheSizeMB \in CacheSizesMB :
       CreateText(font, clusters, maxCacheSizeMB)
  \/ \E t \in 1..MaxTexts : ClearCache(t)

(***************************************************************************)
(* PathOptimizer (core/geometry/PathOptimizer.ts) and MinHeap              *)
(*                                                                         *)
(* Points have integer coordinates.  An area is kept as twice its value,   *)
(* a length is compared through its square, and colinearThreshold, an      *)
(* angle below a right angle, is given by its tangent <<n, d>>: the angle  *)
(* between two vectors is at most the threshold iff their dot product is   *)
(* positive and |cross| * d <= n * dot.                                    *)
(***************************************************************************)
\* Bound of the path model: the number of points of a path
MaxPoints == 6

\* Bound of the path model: the number of optimizePath calls in a row
MaxRuns == 2

Pt(x, y) == [x |-> x, y |-> y]

\* the points paths are made of
PathPoints == {Pt(0, 0), Pt(0, 2), Pt(1, 1), Pt(2, 1), Pt(3, 0 - 1)}

\* OptimizationConfig: thresholds of 0 and 1 square unit, of 0 and 0.8 radians
\* (tangent 103/100), minimum segment lengths 0 and 2
OptimizationConfigs ==
  {[enabled |-> e, areaThreshold |-> a, colinearThreshold |-> c, minSegmentLength |-> m] :
     e \in {TRUE}, a \in {0, 1}, c \in {<<0, 1>>, <<103, 100>>}, m \in {0, 2}}
  \cup {[enabled |-> FALSE, areaThreshold |-> 1, colinearThreshold |-> <<0, 1>>,
         minSegmentLength |-> 0]}

EmptyOptimizationStats ==
  [pointsRemovedByVisvalingam |-> 0, pointsRemovedByColinear |-> 0, originalPointCount |-> 0]

Put(arr, i, v) == [arr EXCEPT ![i + 1] = v]

\* ---- MinHeap, ordered by area: heap is the array, area the key of each item ----
\* itemIndex.get(value), Missing if the item is not in the heap
itemIndex(heap, value) ==
  IF \E i \in 0..(Len(heap) - 1) : At(heap, i) = value
  THEN CHOOSE i \in 0..(Len(heap) - 1) : At(heap, i) = value
  ELSE Missing

RECURSIVE siftUpLoop(_, _, _, _)
siftUpLoop(heap, area, i, item) ==
  IF i > 0 /\ ~(area[item] - area[At(heap, (i - 1) \div 2)] >= 0)
  THEN siftUpLoop(Put(heap, i, At(heap, (i - 1) \div 2)), area, (i - 1) \div 2, item)
  ELSE Put(heap, i, item)

siftUp(heap, area, i) == siftUpLoop(heap, area, i, At(heap, i))

RECURSIVE siftDownLoop(_, _, _, _)
siftDownLoop(heap, area, i, item) ==
  IF i < Len(heap) \div 2
  THEN LET leftIndex  == 2 * i + 1
           rightIndex == leftIndex + 1
           viaLeft    == area[At(heap, leftIndex)] - area[item] < 0
           smallest1  == IF viaLeft THEN At(heap, leftIndex) ELSE item
           viaRight   == rightIndex < Len(heap)
                         /\ area[At(heap, rightIndex)] - area[smallest1] < 0
           smallestIndex == IF viaRight THEN rightIndex
                            ELSE IF viaLeft THEN leftIndex ELSE i
       IN  IF smallestIndex = i THEN Put(heap, i, item)
           ELSE siftDownLoop(Put(heap, i, At(heap, smallestIndex)), area, smallestIndex, item)
  ELSE Put(heap, i, item)

siftDown(heap, area, i) == siftDownLoop(heap, area, i, At(heap, i))

heapInsert(heap, area, value) ==
  LET existingIndex == itemIndex(heap, value)
  IN  IF existingIndex # Missing
      THEN siftDown(siftUp(heap, area, existingIndex), area, existingIndex)
      ELSE siftUp(Append(heap, value), area, Len(heap))

\* extractMin on a heap that is not empty: the minimum and the heap left
extractMin(heap, area) ==
  IF Len(heap) = 1
  THEN [min |-> heap[1], heap |-> << >>]
  ELSE LET last == heap[Len(heap)]
           rest == Put(SubSeq(heap, 1, Len(heap) - 1), 0, last)
       IN  [min |-> heap[1], heap |-> siftDown(rest, area, 0)]

\* an update that percolates towards the root only
updateUpwards(heap, area, value) ==
  LET index == itemIndex(heap, value)
  IN  IF index = Missing THEN heapInsert(heap, area, value)
      ELSE siftUp(heap, area, index)

update(heap, area, value) ==
  LET index == itemIndex(heap, value)
  IN  IF index = Missing THEN heapInsert(heap, area, value)
      ELSE siftDown(siftUp(heap, area, index), area, index)

\* ---- PathOptimizer ----
\* twice the area of the shoelace formula
calculateTriangleArea(p1, p2, p3) ==
  Abs(p1.x * (p2.y - p3.y) + p2.x * (p3.y - p1.y) + p3.x * (p1.y - p2.y))

\* the square of a.distanceTo(b)
distanceToSq(a, b) == (a.x - b.x) * (a.x - b.x) + (a.y - b.y) * (a.y - b.y)

\* the linked list of VWPoints over the 0-based indices of points, with the heap
\* loaded with the interior points in order; Missing is null
RECURSIVE loadHeap(_, _, _, _)
loadHeap(heap, area, i, n) ==
  IF i < n - 1 THEN loadHeap(heapInsert(heap, area, i), area, i + 1, n) ELSE heap

pointList(points) ==
  LET n    == Len(points)
      area == [i \in 0..(n - 1) |->
                 IF i = 0 \/ i = n - 1 THEN INF
                 ELSE calculateTriangleArea(At(points, i - 1), At(points, i), At(points, i + 1))]
  IN  [prev |-> [i \in 0..(n - 1) |-> IF i = 0 THEN Missing ELSE i - 1],
       next |-> [i \in 0..(n - 1) |-> IF i = n - 1 THEN Missing ELSE i + 1],
       area |-> area,
       heap |-> loadHeap(<< >>, area, 1, n),
       remainingPoints |-> n]

\* the removal of p from the list, with the areas of its neighbours recomputed
unlink(V, points, p) ==
  LET pr == V.prev[p]
      nx == V.next[p]
      V1 == [V EXCEPT !.next[pr] = nx, !.prev[nx] = pr, !.remainingPoints = @ - 1]
      a2 == IF V1.prev[pr] # Missing
            THEN [V1.area EXCEPT ![pr] =
                    calculateTriangleArea(At(points, V1.prev[pr]), At(points, pr), At(points, nx))]
            ELSE V1.area
      h2 == IF V1.prev[pr] # Missing THEN update(V1.heap, a2, pr) ELSE V1.heap
      a3 == IF V1.next[nx] # Missing
            THEN [a2 EXCEPT ![nx] =
                    calculateTriangleArea(At(points, pr), At(points, nx), At(points, V1.next[nx]))]
            ELSE a2
      h3 == IF V1.next[nx] # Missing THEN update(h2, a3, nx) ELSE h2
  IN  [V1 EXCEPT !.area = a3, !.heap = h3]

\* the while loop of simplifyPathVW
RECURSIVE vwLoop(_, _, _)
vwLoop(V, points, config) ==
  IF V.heap = << >> \/ ~(V.remainingPoints > 3) THEN V
  ELSE LET x  == extractMin(V.heap, V.area)
           p  == x.min
           V1 == [V EXCEPT !.heap = x.heap]
       IN  IF V.area[p] > 2 * config.areaThreshold THEN V1
           ELSE IF /\ config.minSegmentLength > 0
                   /\ V.prev[p] # Missing /\ V.next[p] # Missing
                   /\ \/ distanceToSq(At(points, V.prev[p]), At(points, p))
                           < config.minSegmentLength * config.minSegmentLength
                      \/ distanceToSq(At(points, p), At(points, V.next[p]))
                           < config.minSegmentLength * config.minSegmentLength
                THEN vwLoop(V1, points, config)
                ELSE vwLoop(unlink(V1, points, p), points, config)

RECURSIVE simplifiedPoints(_, _, _)
simplifiedPoints(V, points, current) ==
  IF current = Missing THEN << >>
  ELSE <<At(points, current)>> \o simplifiedPoints(V, points, V.next[current])

simplifyPathVW(points, config) ==
  IF Len(points) <= 3 THEN points
  ELSE simplifiedPoints(vwLoop(pointList(points), points, config), points, 0)

\* Vector2.angle() depends on the direction only; the zero vector has angle 0
direction(v) == IF v.x = 0 /\ v.y = 0 THEN Pt(1, 0) ELSE v

\* normalizedAngle > threshold, for the angle between v1 and v2
angleExceeds(v1, v2, threshold) ==
  LET a     == direction(v1)
      b     == direction(v2)
      dot   == a.x * b.x + a.y * b.y
      cross == a.x * b.y - a.y * b.x
  IN  ~(dot > 0 /\ Abs(cross) * threshold[2] <= threshold[1] * dot)

\* the test of removeColinearPoints that keeps points[i]
keepsPoint(points, i, config) ==
  LET prev    == At(points, i - 1)
      current == At(points, i)
      next    == At(points, i + 1)
      v1 == Pt(current.x - prev.x, current.y - prev.y)
      v2 == Pt(next.x - current.x, next.y - current.y)
  IN  \/ angleExceeds(v1, v2, config.colinearThreshold)
      \/ distanceToSq(prev, current) < config.minSegmentLength * config.minSegmentLength
      \/ distanceToSq(current, next) < config.minSegmentLength * config.minSegmentLength

RECURSIVE colinearLoop(_, _, _)
colinearLoop(points, i, config) ==
  IF i < Len(points) - 1
  THEN (IF keepsPoint(points, i, config) THEN <<At(points, i)>> ELSE << >>)
       \o colinearLoop(points, i + 1, config)
  ELSE << >>

removeColinearPoints(points, config) ==
  IF Len(points) <= 2 THEN points
  ELSE <<points[1]>> \o colinearLoop(points, 1, config) \o <<points[Len(points)]>>

\* optimizePath(path): the path returned and the stats after the call
optimizePath(points, config, st) ==
  IF ~config.enabled \/ Len(points) <= 2 THEN [points |-> points, stats |-> st]
  ELSE LET st1 == [st EXCEPT !.originalPointCount = @ + Len(points)]
           vw  == simplifyPathVW(points, config)
           st2 == [st1 EXCEPT !.pointsRemovedByVisvalingam = @ + (Len(points) - Len(vw))]
           col == removeColinearPoints(vw, config)
           st3 == [st2 EXCEPT !.pointsRemovedByColinear = @ + (Len(vw) - Len(col))]
       IN  IF Len(points) < 5 THEN [points |-> points, stats |-> st1]
           ELSE IF Len(vw) < 3 THEN [points |-> points, stats |-> st2]
           ELSE IF Len(col) < 3 THEN [points |-> points, stats |-> st3]
           ELSE [points |-> col, stats |-> st3]

\* DEFAULT_OPTIMIZATION_CONFIG, at the scale of the points in use
DEFAULT_OPTIMIZATION_CONFIG ==
  [enabled |-> TRUE, areaThreshold |-> 1, colinearThreshold |-> <<0, 1>>,
   minSegmentLength |-> 2]

PathInit ==
  /\ pathPoints = << >>
  /\ optimizerConfig = DEFAULT_OPTIMIZATION_CONFIG
  /\ optimizerStats = EmptyOptimizationStats
  /\ pointCounts = << >>

\* setConfig(config), before the path is made
setConfig(config) ==
  /\ pathPoints = << >>
  /\ pointCounts = << >>
  /\ optimizerConfig = DEFAULT_OPTIMIZATION_CONFIG
  /\ optimizerConfig' = config
  /\ UNCHANGED <<pathPoints, optimizerStats, pointCounts>>
  /\ UNCHANGED othersOfPath

\* a point is added to the path that will be optimized
AddPoint(p) ==
  /\ pointCounts = << >>
  /\ Len(pathPoints) < MaxPoints
  /\ pathPoints' = Append(pathPoints, p)
  /\ UNCHANGED <<optimizerConfig, optimizerStats, pointCounts>>
  /\ UNCHANGED othersOfPath

\* optimizePath is applied to the path, and again to what it returned
OptimizePath ==
  /\ Len(pointCounts) < MaxRuns
  /\ LET r == optimizePath(pathPoints, optimizerConfig, optimizerStats)
     IN  /\ pathPoints' = r.points
         /\ optimizerStats' = r.stats
         /\ pointCounts' = Append(pointCounts, Len(r.points))
  /\ UNCHANGED optimizerConfig
  /\ UNCHANGED othersOfPath

PathNext ==
  \/ \E config \in OptimizationConfigs \ {DEFAULT_OPTIMIZATION_CONFIG} : setConfig(config)
  \/ \E p \in PathPoints : AddPoint(p)
  \/ OptimizePath

(***************************************************************************)
(* HarfBuzzLoader (core/shaping/HarfBuzzLoader.ts) under Text.init         *)
(*                                                                         *)
(* A promise is represented by the module configuration its executor       *)
(* built before its first await: the WASM binary, the WASM location, or    *)
(* the error thrown when neither is set.                                   *)
(***************************************************************************)
\* Bound of the loader model: the number of calls explored
MaxHbCalls == 5

\* null, for a path, a buffer or a promise
Null == ""

WasmPaths == {"/hb/hb.wasm", "/alt/hb.wasm"}

WasmBuffers == {"buffer1", "buffer2"}

NoPromise == [uses |-> Null, value |-> Null]

\* new Promise(async (resolve, reject) => ...) of getHarfBuzz, up to its await
newHarfbuzzPromise(path, buffer) ==
  IF buffer # Null THEN [uses |-> "wasmBinary", value |-> buffer]
  ELSE IF path # Null THEN [uses |-> "locateFile", value |-> path]
  ELSE [uses |-> "rejected", value |-> Null]

HbInit ==
  /\ wasmPath = Null
  /\ wasmBuffer = Null
  /\ harfbuzzPromise = NoPromise
  /\ hbInitPromise = NoPromise
  /\ hbCalls = << >>
  /\ hbAttempts = 0
  /\ hbState = "none"
  /\ hbInits = << >>

\* Text.setHarfBuzzPath(path): HarfBuzzLoader.setWasmPath, then hbInitPromise = null
setHarfBuzzPath(p) ==
  /\ Len(hbCalls) < MaxHbCalls
  /\ wasmPath' = p
  /\ wasmBuffer' = Null
  /\ harfbuzzPromise' = NoPromise
  /\ hbInitPromise' = NoPromise
  /\ hbCalls' = Append(hbCalls, "setHarfBuzzPath")
  /\ hbState' = "none"
  /\ UNCHANGED <<hbAttempts, hbInits>>
  /\ UNCHANGED othersOfHb

\* Text.setHarfBuzzBuffer(wasmBuffer): HarfBuzzLoader.setWasmBuffer, then hbInitPromise = null
setHarfBuzzBuffer(b) ==
  /\ Len(hbCalls) < MaxHbCalls
  /\ wasmBuffer' = b
  /\ wasmPath' = Null
  /\ harfbuzzPromise' = NoPromise
  /\ hbInitPromise' = NoPromise
  /\ hbCalls' = Append(hbCalls, "setHarfBuzzBuffer")
  /\ hbState' = "none"
  /\ UNCHANGED <<hbAttempts, hbInits>>
  /\ UNCHANGED othersOfHb

\* if (harfbuzzPromise) return harfbuzzPromise, and the same test of
\* Text.hbInitPromise in Text.init and Text.create: whatever its state
returnsPromiseHeld(promise, state) == promise # NoPromise

\* Text.init(), and the start of Text.create: HarfBuzzLoader.getHarfBuzz() unless
\* hbInitPromise is set.  The executor of a new promise rejects at once when
\* neither a buffer nor a path is set, and waits for createHarfBuzz otherwise
init ==
  /\ Len(hbCalls) < MaxHbCalls
  /\ LET isNew == /\ ~returnsPromiseHeld(hbInitPromise, hbState)
                  /\ ~returnsPromiseHeld(harfbuzzPromise, hbState)
         made == IF isNew THEN newHarfbuzzPromise(wasmPath, wasmBuffer)
                 ELSE IF returnsPromiseHeld(hbInitPromise, hbState) THEN hbInitPromise
                 ELSE harfbuzzPromise
     IN  /\ harfbuzzPromise' = IF returnsPromiseHeld(hbInitPromise, hbState)
                               THEN harfbuzzPromise ELSE made
         /\ hbInitPromise' = made
         /\ hbAttempts' = IF isNew THEN hbAttempts + 1 ELSE hbAttempts
         /\ hbState' = IF ~isNew THEN hbState
                       ELSE IF made.uses = "rejected" THEN "rejected" ELSE "pending"
         /\ hbInits' = Append(hbInits,
                              [attempt |-> IF isNew THEN hbAttempts + 1 ELSE hbAttempts,
                               stateBefore |-> hbState])
  /\ hbCalls' = Append(hbCalls, "init")
  /\ UNCHANGED <<wasmPath, wasmBuffer>>
  /\ UNCHANGED othersOfHb

\* createHarfBuzz(moduleConfig) settles: the module is made, or the call throws
\* and the promise is rejected with "Failed to initialize HarfBuzz"
settle(ok) ==
  /\ hbState = "pending"
  /\ hbState' = IF ok THEN "fulfilled" ELSE "rejected"
  /\ UNCHANGED <<wasmPath, wasmBuffer, harfbuzzPromise, hbInitPromise, hbCalls,
                 hbAttempts, hbInits>>
  /\ UNCHANGED othersOfHb

HbNext ==
  \/ \E p \in WasmPaths : setHarfBuzzPath(p)
  \/ \E b \in WasmBuffers : setHarfBuzzBuffer(b)
  \/ init
  \/ \E ok \in BOOLEAN : settle(ok)

(***************************************************************************)
(* LineBreak.breakText on one paragraph under several tolerances           *)
(*                                                                         *)
(* The paragraph and the options other than tolerance are fixed from the   *)
(* start; each call lays the paragraph out with a tolerance and records    *)
(* what breakText returned.                                                *)
(***************************************************************************)
\* Bound of the break model: the number of words of a paragraph
MaxWords == 9

\* Bound of the break model: the number of breakText calls on a paragraph
MaxBreaks == 2

\* the words paragraphs are made of, in order, and over again after the last
BreakWords ==
  << <<"a", "a">>, <<"a", "a">>, <<"i">>, <<"a", "a">>, <<"a", "a">>, <<"i">>,
     <<"a", "i", "i">>, <<"a", "a">>, <<"a">> >>

\* the number of words of a text of words joined by single spaces
RECURSIVE wordCount(_)
wordCount(text) ==
  IF text = << >> THEN 0
  ELSE IF Len(text) = 1 THEN 1
  ELSE (IF Head(text) = " " THEN 1 ELSE 0) + wordCount(Tail(text))

\* the word that comes after the n first ones
nextWord(n) == BreakWords[(n % Len(BreakWords)) + 1]

\* line widths: below four letters, and below six
BreakWidths == {215, 345}

Tolerances == {100, 200, 400}

Loosenesses == {0 - 1, 0, 1}

BreakOptions ==
  { [DefaultLayout EXCEPT !.width = w, !.hyphenate = h, !.looseness = l] :
      w \in BreakWidths, h \in BOOLEAN, l \in Loosenesses }

BreakInit ==
  /\ paragraph = << >>
  /\ breakOptions = DefaultLayout
  /\ outcomes = << >>

\* the paragraph gets its next word, before any call
AddWord ==
  /\ outcomes = << >>
  /\ wordCount(paragraph) < MaxWords
  /\ paragraph' = IF paragraph = << >> THEN nextWord(0)
                  ELSE paragraph \o <<" ">> \o nextWord(wordCount(paragraph))
  /\ UNCHANGED <<breakOptions, outcomes>>
  /\ UNCHANGED othersOfBreak

\* the options other than tolerance are chosen, before any call
SetOptions(o) ==
  /\ outcomes = << >>
  /\ breakOptions = DefaultLayout
  /\ breakOptions' = o
  /\ UNCHANGED <<paragraph, outcomes>>
  /\ UNCHANGED othersOfBreak

\* breakText({ ...breakOptions, text: paragraph, tolerance }): the call's
\* options, the lines returned and the passes each round of the search ran
BreakText(tolerance) ==
  /\ Len(outcomes) < MaxBreaks
  /\ paragraph # << >>
  /\ breakOptions # DefaultLayout
  /\ LET o == [breakOptions EXCEPT !.text = paragraph, !.tolerance = tolerance]
         r == computeLines(o)
     IN  outcomes' = Append(outcomes,
                            [options |-> o, lines |-> r.lines,
                             paragraphs |-> r.paragraphs])
  /\ UNCHANGED <<paragraph, breakOptions>>
  /\ UNCHANGED othersOfBreak

BreakNext ==
  \/ AddWord
  \/ \E o \in BreakOptions : SetOptions(o)
  \/ \E tolerance \in Tolerances : BreakText(tolerance)


(***************************************************************************)
(* BoundaryClusterer                                                       *)
(*                                                                         *)
(* Glyph indices count from 0 as in the code.  Coordinates are integers,   *)
(* so the comparisons within OVERLAP_EPSILON are comparisons with <= and   *)
(* >=, as in hasOverlaps above.                                            *)
(***************************************************************************)
\* Bound of the clusterer model: the number of glyphs in the cluster at hand
MaxGlyphs == 3

\* the positions of a glyph within its cluster: side by side, a box apart, a line up
ClusterPositions == {[x |-> x, y |-> y] : x \in {0, 10, 20}, y \in {0, 15}}

ClusterGlyphs == {ShapedGlyph(g, p.x, p.y) : g \in GlyphIds, p \in ClusterPositions}

\* events[eventIndex++] = [bounds[i].minX, 0, i]; ... = [bounds[i].maxX, 1, i]
RECURSIVE eventsOf(_, _)
eventsOf(bounds, i) ==
  IF i >= Len(bounds) THEN << >>
  ELSE <<<<At(bounds, i).minX, 0, i>>, <<At(bounds, i).maxX, 1, i>>>> \o eventsOf(bounds, i + 1)

\* a comparator that looks at x alone
compareByX(a, b) == a[1] - b[1]

\* (a, b) => a[0] - b[0] || a[1] - b[1]
compareEvents(a, b) == IF a[1] - b[1] # 0 THEN a[1] - b[1] ELSE a[2] - b[2]

\* Array.prototype.sort is stable: an event goes behind those that compare equal to it
RECURSIVE insertEvent(_, _)
insertEvent(sorted, ev) ==
  IF sorted = << >> THEN <<ev>>
  ELSE IF compareEvents(ev, Head(sorted)) < 0 THEN <<ev>> \o sorted
  ELSE <<Head(sorted)>> \o insertEvent(Tail(sorted), ev)

RECURSIVE sortEvents(_, _)
sortEvents(events, sorted) ==
  IF events = << >> THEN sorted
  ELSE sortEvents(Tail(events), insertEvent(sorted, Head(events)))

\* find(x), its value: parent[x] === x ? x : find(parent[x])
RECURSIVE findRoot(_, _)
findRoot(parent, x) == IF parent[x] = x THEN x ELSE findRoot(parent, parent[x])

\* find(x), its effect: parent[x] = find(parent[x]) all the way up
RECURSIVE findCompress(_, _)
findCompress(parent, x) ==
  IF parent[x] = x THEN parent
  ELSE [findCompress(parent, parent[x]) EXCEPT ![x] = findRoot(parent, x)]

\* union(x, y) on uf = [parent, rank]
union(uf, x, y) ==
  LET px == findRoot(uf.parent, x)
      p1 == findCompress(uf.parent, x)
      py == findRoot(p1, y)
      p2 == findCompress(p1, y)
  IN  IF px = py THEN [parent |-> p2, rank |-> uf.rank]
      ELSE IF uf.rank[px] < uf.rank[py]
        THEN [parent |-> [p2 EXCEPT ![px] = py], rank |-> uf.rank]
      ELSE IF uf.rank[px] > uf.rank[py]
        THEN [parent |-> [p2 EXCEPT ![py] = px], rank |-> uf.rank]
      ELSE [parent |-> [p2 EXCEPT ![py] = px],
            rank |-> [uf.rank EXCEPT ![px] = uf.rank[px] + 1]]

\* bounds1.minY < bounds2.maxY + OVERLAP_EPSILON && bounds1.maxY > bounds2.minY - OVERLAP_EPSILON
overlapsInY(bounds1, bounds2) ==
  bounds1.minY <= bounds2.maxY /\ bounds1.maxY >= bounds2.minY

\* for (const activeIndex of active), in the order the set was filled
RECURSIVE checkActive(_, _, _, _)
checkActive(bounds, uf, glyphIndex, active) ==
  IF active = << >> THEN uf
  ELSE checkActive(bounds,
                   IF overlapsInY(At(bounds, glyphIndex), At(bounds, Head(active)))
                   THEN union(uf, glyphIndex, Head(active)) ELSE uf,
                   glyphIndex, Tail(active))

\* for (const [, eventType, glyphIndex] of events), on s = [uf, active]
RECURSIVE sweep(_, _, _)
sweep(bounds, events, s) ==
  IF events = << >> THEN s
  ELSE LET eventType  == Head(events)[2]
           glyphIndex == Head(events)[3]
       IN  sweep(bounds, Tail(events),
                 IF eventType = 0
                 THEN [uf |-> checkActive(bounds, s.uf, glyphIndex, s.active),
                       active |-> IF \E k \in DOMAIN s.active : s.active[k] = glyphIndex
                                  THEN s.active ELSE Append(s.active, glyphIndex)]
                 ELSE [uf |-> s.uf,
                       active |-> SelectSeq(s.active, LAMBDA a : a # glyphIndex)])

\* clusters.get(root).push(i), after clusters.set(root, []) for a new root
pushToCluster(clusters, root, i) ==
  IF \E k \in DOMAIN clusters : clusters[k].root = root
  THEN [k \in DOMAIN clusters |->
          IF clusters[k].root = root
          THEN [root |-> root, members |-> Append(clusters[k].members, i)]
          ELSE clusters[k]]
  ELSE Append(clusters, [root |-> root, members |-> <<i>>])

\* for (let i = 0; i < n; i++) { const root = find(i); ... }
RECURSIVE collectClusters(_, _, _, _)
collectClusters(parent, n, i, clusters) ==
  IF i >= n THEN clusters
  ELSE collectClusters(findCompress(parent, i), n, i + 1,
                       pushToCluster(clusters, findRoot(parent, i), i))

clusterSweepLine(glyphContoursList, positions) ==
  LET n == Len(glyphContoursList)
      bounds == [i \in 1..n |-> getWorldBounds(glyphContoursList[i], positions[i])]
      events == sortEvents(eventsOf(bounds, 0), << >>)
      uf0 == [parent |-> [i \in 0..(n - 1) |-> i], rank |-> [i \in 0..(n - 1) |-> 0]]
      swept == sweep(bounds, events, [uf |-> uf0, active |-> << >>])
      clusters == collectClusters(swept.uf.parent, n, 0, << >>)
  IN  IF n <= 1 THEN (IF n = 0 THEN << >> ELSE <<<<0>>>>)
      ELSE [k \in DOMAIN clusters |-> clusters[k].members]

\* BoundaryClusterer.cluster
cluster(glyphContoursList, positions) ==
  IF Len(glyphContoursList) = 0 THEN << >>
  ELSE clusterSweepLine(glyphContoursList, positions)

\* no call has been made
NotClustered == <<"none">>

ClusterInit ==
  /\ clusterGlyphs = << >>
  /\ boundaryGroups = NotClustered

\* the cluster at hand gets one more glyph, before the call
AddGlyph(glyph) ==
  /\ boundaryGroups = NotClustered
  /\ Len(clusterGlyphs) < MaxGlyphs
  /\ clusterGlyphs' = Append(clusterGlyphs, glyph)
  /\ UNCHANGED boundaryGroups
  /\ UNCHANGED othersOfCluster

\* buildInstancedGeometry's steps 1 and 2 on the cluster at hand:
\* this.clusterer.cluster(clusterGlyphContours, relativePositions)
Cluster ==
  /\ boundaryGroups = NotClustered
  /\ boundaryGroups' =
       cluster([i \in DOMAIN clusterGlyphs |-> getContoursForGlyph(clusterGlyphs[i].g)],
               [i \in DOMAIN clusterGlyphs |-> [x |-> clusterGlyphs[i].x, y |-> clusterGlyphs[i].y]])
  /\ UNCHANGED clusterGlyphs
  /\ UNCHANGED othersOfCluster

ClusterNext ==
  \/ \E glyph \in ClusterGlyphs : AddGlyph(glyph)
  \/ Cluster


(***************************************************************************)
(* MinHeap on its own                                                      *)
(*                                                                         *)
(* The elements are objects with a key field; the comparator is            *)
(* (a, b) => a.key - b.key, as PathOptimizer's is on area.                 *)
(***************************************************************************)
\* Bound of the heap model: the number of insert, update and extractMin calls
MaxHeapCalls == 6

HeapElements == 1..4

HeapKeyValues == 1..3

\* extractMin(): undefined on an empty heap
heapExtractMin(heap, keys) ==
  IF Len(heap) = 0 THEN [min |-> Missing, heap |-> heap] ELSE extractMin(heap, keys)

\* no extractMin call has been made
NotExtracted == [before |-> << >>, keys |-> << >>, min |-> 0, after |-> << >>]

HeapInit ==
  /\ heapItems = << >>
  /\ heapKeys = [e \in HeapElements |-> 0]
  /\ heapCalls = 0
  /\ extracted = NotExtracted

\* the elements made so far
HeapMade == {e \in HeapElements : heapKeys[e] # 0}

\* heap.insert(value) of a new object with its key, the objects taken in order
InsertNew(key) ==
  /\ heapCalls < MaxHeapCalls
  /\ HeapMade # HeapElements
  /\ LET value == Cardinality(HeapMade) + 1
         keys  == [heapKeys EXCEPT ![value] = key]
     IN  /\ heapKeys' = keys
         /\ heapItems' = heapInsert(heapItems, keys, value)
  /\ heapCalls' = heapCalls + 1
  /\ UNCHANGED extracted
  /\ UNCHANGED othersOfHeap

\* heap.insert(value) of an object made before, its key as it was
InsertAgain(value) ==
  /\ heapCalls < MaxHeapCalls
  /\ value \in HeapMade
  /\ heapItems' = heapInsert(heapItems, heapKeys, value)
  /\ heapCalls' = heapCalls + 1
  /\ UNCHANGED <<heapKeys, extracted>>
  /\ UNCHANGED othersOfHeap

\* value.key = key; heap.update(value)
Update(value, key) ==
  /\ heapCalls < MaxHeapCalls
  /\ value \in HeapMade
  /\ LET keys == [heapKeys EXCEPT ![value] = key]
     IN  /\ heapKeys' = keys
         /\ heapItems' = update(heapItems, keys, value)
  /\ heapCalls' = heapCalls + 1
  /\ UNCHANGED extracted
  /\ UNCHANGED othersOfHeap

\* heap.extractMin()
ExtractMin ==
  /\ heapCalls < MaxHeapCalls
  /\ LET r == heapExtractMin(heapItems, heapKeys)
     IN  /\ heapItems' = r.heap
         /\ extracted' = [before |-> heapItems, keys |-> heapKeys, min |-> r.min,
                           after |-> r.heap]
  /\ heapCalls' = heapCalls + 1
  /\ UNCHANGED heapKeys
  /\ UNCHANGED othersOfHeap

HeapNext ==
  \/ \E key \in HeapKeyValues : InsertNew(key)
  \/ \E value \in HeapElements : InsertAgain(value)
  \/ \E value \in HeapElements, key \in HeapKeyValues : Update(value, key)
  \/ ExtractMin


(***************************************************************************)
(* The p5 preload methods loadThreeTextShaper and loadThreeTextFont        *)
(*                                                                         *)
(* p5 counts a call of a registered preload method in and waits for        *)
(* _decrementPreload to count it out.  Each call is recorded with the      *)
(* number of _decrementPreload calls made for it.                          *)
(***************************************************************************)
\* Bound of the preload model: the number of preload method calls explored
MaxPreloadCalls == 3

FontPaths == {"a.ttf", "missing.ttf"}

PreloadInit ==
  /\ shaperInitialized = FALSE
  /\ preloadCalls = << >>

\* loaded: fontRef.buffer has been set
PreloadCall(method, pending) ==
  [method |-> method, pending |-> pending, decrements |-> 0, loaded |-> FALSE]

\* this._decrementPreload() in a then or catch callback of call c
decrementPreload(calls, c) ==
  [calls EXCEPT ![c].decrements = @ + 1, ![c].pending = FALSE]

\* loadThreeTextShaper(wasmPath): returns at once if shaperInitialized; else
\* TextCore.setHarfBuzzPath(wasmPath), shaperInitialized = true, TextCore.init()
\* with a then and a catch callback on its promise
loadThreeTextShaper(path) ==
  /\ Len(preloadCalls) < MaxPreloadCalls
  /\ IF shaperInitialized
     THEN /\ preloadCalls' = Append(preloadCalls, PreloadCall("loadThreeTextShaper", FALSE))
          /\ UNCHANGED <<shaperInitialized, hbVars>>
     ELSE /\ preloadCalls' = Append(preloadCalls, PreloadCall("loadThreeTextShaper", TRUE))
          /\ shaperInitialized' = TRUE
          /\ wasmPath' = path
          /\ wasmBuffer' = Null
          /\ harfbuzzPromise' = newHarfbuzzPromise(path, Null)
          /\ hbInitPromise' = newHarfbuzzPromise(path, Null)
          /\ hbCalls' = hbCalls \o <<"setHarfBuzzPath", "init">>
          /\ hbAttempts' = hbAttempts + 1
          /\ hbState' = "pending"
          /\ hbInits' = Append(hbInits, [attempt |-> hbAttempts + 1, stateBefore |-> "none"])
  /\ UNCHANGED othersOfPreload

\* the then or the catch callback of TextCore.init() in loadThreeTextShaper
shaperSettled(c) ==
  /\ c \in DOMAIN preloadCalls
  /\ preloadCalls[c].method = "loadThreeTextShaper"
  /\ preloadCalls[c].pending
  /\ hbState \in {"fulfilled", "rejected"}
  /\ preloadCalls' = decrementPreload(preloadCalls, c)
  /\ UNCHANGED <<shaperInitialized, hbVars>>
  /\ UNCHANGED othersOfPreload

\* loadThreeTextFont(fontPath): fetch(fontPath) with its callbacks, fontRef returned
loadThreeTextFont(fontPath) ==
  /\ Len(preloadCalls) < MaxPreloadCalls
  /\ preloadCalls' = Append(preloadCalls, PreloadCall("loadThreeTextFont", TRUE))
  /\ UNCHANGED <<shaperInitialized, hbVars>>
  /\ UNCHANGED othersOfPreload

\* fetch settles: the second then callback runs (ok), or the catch callback does
fontSettled(c, ok) ==
  /\ c \in DOMAIN preloadCalls
  /\ preloadCalls[c].method = "loadThreeTextFont"
  /\ preloadCalls[c].pending
  /\ preloadCalls' = decrementPreload([preloadCalls EXCEPT ![c].loaded = ok], c)
  /\ UNCHANGED <<shaperInitialized, hbVars>>
  /\ UNCHANGED othersOfPreload

PreloadNext ==
  \/ \E path \in WasmPaths : loadThreeTextShaper(path)
  \/ \E c \in 1..MaxPreloadCalls : shaperSettled(c)
  \/ \E fontPath \in FontPaths : loadThreeTextFont(fontPath)
  \/ \E c \in 1..MaxPreloadCalls, ok \in BOOLEAN : fontSettled(c, ok)
  \/ \E ok \in BOOLEAN : settle(ok)


(***************************************************************************)
(* Matching text by pattern: TextRangeQuery.findByText and the scan for    *)
(* colour boundaries in TextShaper.shapeLines, one turn of the while loop  *)
(* at a time.  Strings are sequences of characters.                        *)
(***************************************************************************)
\* Bounds of the matching model: the length of the text and the number of patterns
MaxQueryLen == 3

MaxPatterns == 2

\* Bound on the ranges findByText collects: more than the patterns of the model
\* can have matches in a text of the model
MaxRanges == 8

QueryChars == {"a", "b"}

QueryPatterns == {<< >>, <<"a">>, <<"a", "b">>, <<"a", "a">>}

\* String.prototype.indexOf(searchString, position): the first place at or after
\* position (clamped to the length) where searchString stands, -1 if there is none
indexOf(text, searchString, position) ==
  LET from   == Min(Max(position, 0), Len(text))
      places == {i \in from..(Len(text) - Len(searchString)) :
                   \A k \in 1..Len(searchString) : text[i + k] = searchString[k]}
  IN  IF places = {} THEN 0 - 1 ELSE CHOOSE i \in places : \A j \in places : i <= j

QueryInit ==
  /\ queryText = << >>
  /\ queryPatterns = << >>
  /\ queryPc = "idle"
  /\ patternAt = 0
  /\ queryIndex = 0
  /\ queryRanges = << >>
  /\ colorBoundaries = {}

\* the text gets one more character, before the call
TypeQueryChar(ch) ==
  /\ queryPc = "idle"
  /\ Len(queryText) < MaxQueryLen
  /\ queryText' = Append(queryText, ch)
  /\ UNCHANGED <<queryPatterns, queryPc, patternAt, queryIndex, queryRanges, colorBoundaries>>
  /\ UNCHANGED othersOfQuery

\* the list of patterns gets one more pattern, before the call
AddPattern(pattern) ==
  /\ queryPc = "idle"
  /\ Len(queryPatterns) < MaxPatterns
  /\ queryPatterns' = Append(queryPatterns, pattern)
  /\ UNCHANGED <<queryText, queryPc, patternAt, queryIndex, queryRanges, colorBoundaries>>
  /\ UNCHANGED othersOfQuery

\* for (const pattern of patterns) { let index = 0; ...: the loop moves to the
\* pattern after p, or ends
nextPattern(p) ==
  IF p < Len(queryPatterns)
  THEN /\ patternAt' = p + 1
       /\ queryIndex' = 0
       /\ UNCHANGED queryPc
  ELSE /\ queryPc' = "done"
       /\ UNCHANGED <<patternAt, queryIndex>>

\* rangeQuery.execute({ byText: patterns }): findByText up to its first while test
execute ==
  /\ queryPc = "idle"
  /\ queryPc' = IF queryPatterns = << >> THEN "done" ELSE "findByText"
  /\ patternAt' = IF queryPatterns = << >> THEN 0 ELSE 1
  /\ UNCHANGED <<queryText, queryPatterns, queryIndex, queryRanges, colorBoundaries>>
  /\ UNCHANGED othersOfQuery

\* one test of while ((index = this.text.indexOf(pattern, index)) !== -1) in
\* findByText, with the loop's body if the test passes
findByTextStep ==
  /\ queryPc = "findByText"
  /\ Len(queryRanges) < MaxRanges
  /\ LET pattern == queryPatterns[patternAt]
         found   == indexOf(queryText, pattern, queryIndex)
     IN  IF found # 0 - 1
         THEN /\ queryRanges' = Append(queryRanges, [start |-> found, end |-> found + Len(pattern)])
              /\ queryIndex' = found + Len(pattern)
              /\ UNCHANGED <<queryPc, patternAt>>
         ELSE /\ nextPattern(patternAt)
              /\ UNCHANGED queryRanges
  /\ UNCHANGED <<queryText, queryPatterns, colorBoundaries>>
  /\ UNCHANGED othersOfQuery

\* shapeLines with color.byText and an originalText that is not empty, up to the
\* first while test of its scan
shapeLines ==
  /\ queryPc = "idle"
  /\ queryText # << >>
  /\ queryPc' = IF queryPatterns = << >> THEN "done" ELSE "colorBoundaries"
  /\ patternAt' = IF queryPatterns = << >> THEN 0 ELSE 1
  /\ UNCHANGED <<queryText, queryPatterns, queryIndex, queryRanges, colorBoundaries>>
  /\ UNCHANGED othersOfQuery

\* one test of while ((index = originalText.indexOf(textToColor, index)) !== -1)
\* in shapeLines, with the loop's body if the test passes.  A turn on the empty
\* pattern at a place already in the set leaves every variable as it was: the
\* loop is still running, turn after turn, in one state
colorBoundariesStep ==
  /\ queryPc = "colorBoundaries"
  /\ LET textToColor == queryPatterns[patternAt]
         found       == indexOf(queryText, textToColor, queryIndex)
     IN  IF found # 0 - 1
         THEN /\ colorBoundaries' = colorBoundaries \cup {found, found + Len(textToColor)}
              /\ queryIndex' = found + Len(textToColor)
              /\ UNCHANGED <<queryPc, patternAt>>
         ELSE /\ nextPattern(patternAt)
              /\ UNCHANGED colorBoundaries
  /\ UNCHANGED <<queryText, queryPatterns, queryRanges>>
  /\ UNCHANGED othersOfQuery

QueryNext ==
  \/ \E ch \in QueryChars : TypeQueryChar(ch)
  \/ \E pattern \in QueryPatterns : AddPattern(pattern)
  \/ execute
  \/ findByTextStep
  \/ shapeLines
  \/ colorBoundariesStep


(***************************************************************************)
(* Properties of the glyph cache (SpecCache)                               *)
(***************************************************************************)

\* every entry ever set fits the budget on its own
EveryEntryFits ==
  \A n \in 1 .. Len(nodes) : calculateMemoryUsage(nodes[n].data) <= MaxCacheSize

\* C1: after any sequence of get and set calls, the total estimated byte size
\* of the entries resident in the cache is at most the budget.  It is stated
\* here for the sequences whose entries each fit the budget on their own, and
\* fails even for them.
C1_ResidentWithinBudget ==
  EveryEntryFits => ResidentBytes <= MaxCacheSize

\* C2: whenever a set call evicts entries, no entry is evicted while a less
\* recently used entry stays resident: every key the step evicts was last
\* used (set or found by get) before every key that is resident after it.
C2_EvictsLeastRecentlyUsed ==
  [][\A e \in Keys, r \in Keys :
       (cache[e] # 0 /\ cache'[e] = 0 /\ cache'[r] # 0)
         => lastUse[e] < lastUse'[r]]_vars

(***************************************************************************)
(* Properties of Text.create (SpecCreate)                                  *)
(***************************************************************************)

\* C3: two calls that need the same font, or the pattern of the same
\* language, and are started before the first load has finished share one
\* load: no two calls are at once awaiting a load of their own for the same
\* font key or for the same language.
C3_OneLoadInFlight ==
  \A c1 \in Calls, c2 \in Calls :
    c1 # c2 =>
      /\ ~(/\ pc[c1] = "fontLoading"
           /\ pc[c2] = "fontLoading"
           /\ fontKey(opts[c1]) = fontKey(opts[c2]))
      /\ ~(/\ pc[c1] = "patternLoading"
           /\ pc[c2] = "patternLoading"
           /\ opts[c1].language = opts[c2].language)

ValidationErrors == {"FontRequired", "TextRequired", "TextTooLong"}

\* missing or empty text, text longer than the maximum, or no font
InvalidInput(o) ==
  \/ o.font = NoFont
  \/ o.textLen = Missing
  \/ o.textLen = 0
  \/ o.textLen > (IF o.maxTextLength = Unset THEN DEFAULT_MAX_TEXT_LENGTH
                  ELSE o.maxTextLength)

\* C8: a call with missing or empty text, with text longer than the maximum,
\* or without a font rejects with an input-validation error, before any line
\* breaking, shaping or geometry work is done for it.  (A call whose font
\* failed to load is left aside: it rejects with the load's error.)
C8_InvalidInputRejected ==
  \A c \in Calls :
    (/\ pc[c] \in {"done", "rejected"}
     /\ InvalidInput(opts[c])
     /\ err[c] # "FontLoadError")
      => /\ pc[c] = "rejected"
         /\ err[c] \in ValidationErrors
         /\ work[c] = NoWork

\* C10: if loading the hyphenation pattern fails, the call logs a warning
\* and goes on without hyphenation instead of rejecting: it has warned, it
\* rejects only if its input is invalid, with the validation error, and when
\* it completes its layout ran with hyphenate = false and without patterns.
C10_PatternFailureRecovered ==
  \A c \in Calls :
    patternFailed[c] =>
      /\ warned[c]
      /\ ~opts[c].hyphenate
      /\ pc[c] \in {"validate", "done", "rejected"}
      /\ pc[c] = "rejected" => (InvalidInput(opts[c]) /\ err[c] \in ValidationErrors)
      /\ pc[c] = "done" =>
           (work[c].layout /\ ~work[c].hyphenate /\ ~work[c].patterns)

\* a call whose pattern load failed has completed, with its layout done
C10_Witness ==
  \E c \in Calls :
    patternFailed[c] /\ pc[c] = "done" /\ work[c].layout /\ ~work[c].hyphenate

(***************************************************************************)
(* Properties of the layout (SpecLayout)                                   *)
(***************************************************************************)

\* character i (0-based) of the text that was laid out, "" outside of it
CharAt(i) == IF i >= 0 /\ i < Len(inputText) THEN inputText[i + 1] ELSE ""

\* the 0-based index at which the line's break falls
BreakIndex(line) == line.originalEnd + 1

\* the line ends with a hyphen that layout added: the character at its break
\* is not a hyphen of the text
EndsWithInsertedHyphen(line) ==
  line.endedWithHyphen /\ CharAt(BreakIndex(line)) # HYPHEN

\* the line's text without the hyphen that layout added
OwnText(line) ==
  IF EndsWithInsertedHyphen(line) /\ line.text # << >>
  THEN SubSeq(line.text, 1, Len(line.text) - 1)
  ELSE line.text

IsVisible(ch) == ch \notin {" ", NL, SHY}

Visible(s) == SelectSeq(s, IsVisible)

LineTexts == [k \in 1 .. Len(result.lines) |-> OwnText(result.lines[k])]

\* C4: the texts of the returned lines, put together in order without the
\* hyphens that layout added at breaks, are the original text.  It is stated
\* here in a form the claim implies, which leaves white space and soft hyphens
\* out of the comparison on both sides, and fails even so.
C4_LinesReconstructText ==
  laidOut => Visible(Flatten(LineTexts)) = Visible(inputText)

\* C5: for a text with embedded newlines, at any width, each line's
\* originalStart is greater than the previous line's originalEnd, and both
\* originalStart and originalEnd strictly increase from line to line.
C5_RangesIncrease ==
  (laidOut /\ Includes(inputText, NL)) =>
    \A k \in 1 .. Len(result.lines) - 1 :
      /\ result.lines[k + 1].originalStart > result.lines[k].originalEnd
      /\ result.lines[k + 1].originalStart > result.lines[k].originalStart
      /\ result.lines[k + 1].originalEnd > result.lines[k].originalEnd

\* the indices (1-based) of the newlines of the text, in order
NewlineIndices ==
  SelectSeq([i \in 1 .. Len(inputText) |-> i], LAMBDA i : inputText[i] = NL)

\* the k-th newline-delimited paragraph of the text
NthParagraph(k) ==
  SubSeq(inputText,
         (IF k = 1 THEN 0 ELSE NewlineIndices[k - 1]) + 1,
         (IF k > Len(NewlineIndices) THEN Len(inputText) + 1
          ELSE NewlineIndices[k]) - 1)

\* one line per newline-delimited paragraph, with the paragraph as its text
\* and x-offset 0
OneLinePerParagraph ==
  /\ Len(result.lines) = Len(NewlineIndices) + 1
  /\ \A k \in 1 .. Len(result.lines) :
       /\ result.lines[k].text = NthParagraph(k)
       /\ result.lines[k].xOffset = 0

\* C6 as stated: when width is absent or infinite, layout returns exactly one
\* line per newline-delimited paragraph, its text the whole paragraph, with
\* x-offset 0.
C6_OneLinePerParagraph ==
  (laidOut /\ (layoutOptions.width = 0 \/ IsInf(layoutOptions.width)))
    => OneLinePerParagraph

\* C6 amended: when width is absent, or is infinite and respectExistingBreaks
\* is not disabled, layout returns exactly one line per newline-delimited
\* paragraph, its text the whole paragraph, with x-offset 0.
C6_OneLinePerParagraphKeepingBreaks ==
  (/\ laidOut
   /\ \/ layoutOptions.width = 0
      \/ IsInf(layoutOptions.width) /\ layoutOptions.respectExistingBreaks)
    => OneLinePerParagraph

\* a text of several paragraphs, one of them empty, laid out at infinite width
C6_Witness ==
  /\ laidOut
  /\ IsInf(layoutOptions.width)
  /\ layoutOptions.respectExistingBreaks
  /\ Len(NewlineIndices) >= 2
  /\ Len(result.lines) = 3
  /\ \E k \in 1 .. 3 : result.lines[k].text # << >>

\* the first index of the run of characters, none of them in stops, that
\* ends at index i
RECURSIVE RunStart(_, _)
RunStart(i, stops) ==
  IF i = 0 \/ CharAt(i - 1) \in stops THEN i ELSE RunStart(i - 1, stops)

\* the last index of the run of characters, none of them in stops, that
\* starts at index i
RECURSIVE RunEnd(_, _)
RunEnd(i, stops) ==
  IF i >= Len(inputText) - 1 \/ CharAt(i + 1) \in stops THEN i
  ELSE RunEnd(i + 1, stops)

\* the break at index b leaves at least lefthyphenmin characters of its word
\* before it and at least righthyphenmin after it; the word is delimited by
\* the characters in stops
RespectsMinimums(b, stops) ==
  /\ b - RunStart(b, stops) >= layoutOptions.lefthyphenmin
  /\ RunEnd(b, stops) - b + 1 >= layoutOptions.righthyphenmin

\* C7 as stated: no returned line ends with an inserted hyphen fewer than
\* lefthyphenmin characters after the start of its word or fewer than
\* righthyphenmin characters before its end, when hyphenation is enabled.  The
\* word is taken as long as it can be, from white space to white space.
C7_HyphenMinimums ==
  (laidOut /\ layoutOptions.hyphenate) =>
    \A k \in 1 .. Len(result.lines) :
      EndsWithInsertedHyphen(result.lines[k])
        => RespectsMinimums(BreakIndex(result.lines[k]), {" ", NL})

\* the line ends with a hyphen added at a hyphenation point of the patterns:
\* the character at its break is a letter, neither a soft hyphen nor a hyphen
EndsWithPatternHyphen(line) ==
  /\ line.endedWithHyphen
  /\ CharAt(BreakIndex(line)) \notin {HYPHEN, SHY, " ", NL, ""}

\* C7 amended: no returned line ends with a hyphen inserted at a hyphenation
\* point of the patterns fewer than lefthyphenmin characters after the start
\* of its word or fewer than righthyphenmin characters before its end, the
\* word being the letters between white space, hyphens and soft hyphens.
\* (A break at a soft hyphen of the text is not held to the minimums.)
C7_PatternHyphenMinimums ==
  laidOut =>
    \A k \in 1 .. Len(result.lines) :
      EndsWithPatternHyphen(result.lines[k])
        => RespectsMinimums(BreakIndex(result.lines[k]), {" ", NL, HYPHEN, SHY})

\* a word was broken at a hyphenation point of the patterns
C7_Witness ==
  /\ laidOut
  /\ layoutOptions.hyphenate
  /\ \E k \in 1 .. Len(result.lines) : EndsWithPatternHyphen(result.lines[k])

\* every pass of every round of the paragraph found no breakpoints
AllPassesEmpty(p) ==
  \A i \in 1 .. Len(p.passes) :
    \A j \in 1 .. Len(p.passes[i]) : p.passes[i][j].breaks = << >>

\* the returned lines whose range lies in the paragraph's
LinesOf(p) ==
  SelectSeq(result.lines,
            LAMBDA l : /\ l.originalStart >= p.offset
                       /\ l.originalEnd < p.offset + Len(p.text))

\* C9: for a paragraph for which every pass of every round found no
\* breakpoints, layout returns exactly one line; its text is the whole
\* paragraph and its width the natural width of that text, not justified.
C9_FallbackLine ==
  laidOut =>
    \A k \in 1 .. Len(result.paragraphs) :
      AllPassesEmpty(result.paragraphs[k]) =>
        /\ Len(LinesOf(result.paragraphs[k])) = 1
        /\ LinesOf(result.paragraphs[k])[1].text = result.paragraphs[k].text
        /\ LinesOf(result.paragraphs[k])[1].naturalWidth
             = measureText(result.paragraphs[k].text)
        /\ LinesOf(result.paragraphs[k])[1].adjustmentRatio = Ratio(0, 1)
        /\ LinesOf(result.paragraphs[k])[1].xOffset = 0

\* a paragraph of several words went through all four passes, hyphenation
\* included, and none found a breakpoint
C9_Witness ==
  /\ laidOut
  /\ \E k \in 1 .. Len(result.paragraphs) :
       /\ AllPassesEmpty(result.paragraphs[k])
       /\ Len(result.paragraphs[k].passes[1]) = 4
       /\ Len(Visible(result.paragraphs[k].text)) >= 2
       /\ Includes(result.paragraphs[k].text, " ")
       /\ Len(LinesOf(result.paragraphs[k])) = 1
(***************************************************************************)
(* Claims about the geometry builder and its caches                        *)
(***************************************************************************)
\* the cache the builder of text t works on
CacheOfText(t) == IF texts[t].ownCache THEN texts[t].cache ELSE globalGlyphCache

ResidentKeys(C) == {k \in DOMAIN C.cache : C.cache[k] # 0}

\* The text is one cluster of two glyphs whose boxes intersect
OneOverlappingCluster(t) ==
  /\ Len(texts[t].clusters) = 1
  /\ Len(texts[t].clusters[1].glyphs) = 2
  /\ hasOverlaps(texts[t].clusters[1], FALSE)

\* C11: after the first text, made of one cluster of two glyphs whose bounding
\* boxes intersect, the cache statistics show one cache entry (the cluster's),
\* not two and not none.
C11_OneEntryForCluster ==
  (Len(texts) >= 1 /\ OneOverlappingCluster(1))
     => /\ texts[1].cacheStats.uniqueGlyphs = 1
        /\ texts[1].cacheStats.cacheSize = 1

\* C12: two Text.create calls given the same font bytes use the same font
\* identity in their glyph cache keys.
C12_SameFontSameIdentity ==
  \A s, t \in 1..Len(texts) :
     texts[s].font = texts[t].font => texts[s].fontId = texts[t].fontId

\* some glyph of the text went through the glyph cache
UsesGlyphCache(t) ==
  \E i \in 1..Len(texts[t].glyphInfos) :
     texts[t].glyphInfos[i].level = "glyph" /\ texts[t].glyphInfos[i].vertexCount > 0

\* C13: when Text.create is called twice with the same font, text and options
\* (and the cache is not cleared in between), the hit rate after the second call
\* is strictly greater than the hit rate after the first.
C13_HitRateGrows ==
  (/\ Len(texts) = 2
   /\ texts[1].font = texts[2].font
   /\ texts[1].clusters = texts[2].clusters
   /\ texts[1].maxCacheSizeMB = texts[2].maxCacheSizeMB
   /\ ~texts[1].cleared /\ ~texts[2].cleared
   /\ UsesGlyphCache(1))
     => texts[2].cacheStats.hitRate[1] * texts[1].cacheStats.hitRate[2]
          > texts[1].cacheStats.hitRate[1] * texts[2].cacheStats.hitRate[2]

\* the bytes of cached geometry the builder of text t holds on to: the resident
\* entries of its glyph cache and the cluster meshes of its wordCache
HeldBytes(t) ==
  LET C == CacheOfText(t)
  IN  SumSet(ResidentKeys(C),
             [k \in DOMAIN C.cache |->
                IF C.cache[k] # 0 THEN calculateMemoryUsage(C.nodes[C.cache[k]].data) ELSE 0])
      + SumSet(texts[t].wordCache,
               [e \in texts[t].wordCache |-> calculateMemoryUsage(e.data)])

\* C17: for a text created with maxCacheSizeMB = M, the cached glyph geometry
\* held for it, per-glyph meshes and cluster meshes alike, stays within M megabytes.
C17_HeldWithinBudget ==
  \A t \in 1..Len(texts) :
     texts[t].maxCacheSizeMB > 0 => HeldBytes(t) <= texts[t].maxCacheSizeMB * BytesPerMB

\* the glyph infos of text t made at glyph level for glyphs without paths
EmptyGlyphInfos(t) ==
  {i \in 1..Len(texts[t].glyphInfos) :
     /\ texts[t].glyphInfos[i].level = "glyph"
     /\ getContoursForGlyph(texts[t].glyphInfos[i].g).paths = 0}

\* C18 (as stated): a glyph with no drawable paths produces an empty-geometry
\* entry in the glyph cache.
C18_EmptyGlyphCached ==
  \A t \in 1..Len(texts) :
     (~texts[t].cleared /\ EmptyGlyphInfos(t) # {})
        => \A i \in EmptyGlyphInfos(t) :
              \E k \in ResidentKeys(CacheOfText(t)) :
                 /\ k = getCacheKey(texts[t].fontId, texts[t].glyphInfos[i].g, 1, FALSE)
                 /\ CacheOfText(t).nodes[CacheOfText(t).cache[k]].data.vertices = 0

\* C18 (amended): a glyph with no drawable paths outside an overlapping cluster
\* gets a glyph info of zero vertices and no entry in the glyph cache, and
\* Tessellator.process is never called for it.
C18_EmptyGlyphSkipped ==
  /\ \A t \in 1..Len(texts) :
        /\ \A i \in EmptyGlyphInfos(t) : texts[t].glyphInfos[i].vertexCount = 0
        /\ \A k \in ResidentKeys(CacheOfText(t)) : getContoursForGlyph(k[2]).paths > 0
  /\ \A n \in 1..Len(tessellated) :
        Len(tessellated[n].glyphs) = 1 => tessellated[n].paths > 0

\* a text with a glyph without paths next to a glyph with paths has been built
C18_Witness ==
  \E t \in 1..Len(texts) :
     /\ EmptyGlyphInfos(t) # {}
     /\ UsesGlyphCache(t)
     /\ texts[t].cacheStats.totalGlyphs >= 1

(***************************************************************************)
(* Claims about the path optimizer                                         *)
(***************************************************************************)
\* C14: optimizePath is idempotent in point count: applied to its own result
\* under the same configuration it returns as many points as the first time.
C14_IdempotentPointCount ==
  Len(pointCounts) >= 2 => pointCounts[2] = pointCounts[1]

(***************************************************************************)
(* Claims about the HarfBuzz loader                                        *)
(***************************************************************************)
\* the calls made since the initialization before the last call
CallsSinceInit ==
  LET n     == Len(hbCalls)
      inits == {i \in 1..(n - 1) : hbCalls[i] = "init"}
      from  == IF inits = {} THEN 1 ELSE 1 + CHOOSE i \in inits : \A j \in inits : j <= i
  IN  {hbCalls[i] : i \in from..(n - 1)}

\* C16: when both a WASM path and a WASM buffer have been set before an
\* initialization, in either order, the initialization uses the buffer.
C16_BufferPreferred ==
  (/\ hbCalls # << >>
   /\ hbCalls[Len(hbCalls)] = "init"
   /\ "setHarfBuzzPath" \in CallsSinceInit
   /\ "setHarfBuzzBuffer" \in CallsSinceInit)
     => hbInitPromise.uses = "wasmBinary"

(***************************************************************************)
(* Claims about single passes of the line breaker                          *)
(***************************************************************************)
\* C19: with looseness 0, the breakpoints a pass returned end with the index
\* of the terminal item (the last of the items the pass ran on).
C19_LastBreakIsTerminal ==
  (laidOut /\ layoutOptions.looseness = 0) =>
    \A k \in 1 .. Len(result.paragraphs) :
      result.paragraphs[k].breaks # << >> =>
        result.paragraphs[k].breaks[Len(result.paragraphs[k].breaks)]
          = Len(result.paragraphs[k].items) - 1


\* C15: for a fixed paragraph, width and other options, a call with a higher
\* tolerance never returns more lines than a call with a lower one
C15_ToleranceKeepsOrLowersLines ==
  \A i \in DOMAIN outcomes : \A j \in DOMAIN outcomes :
    outcomes[i].options.tolerance <= outcomes[j].options.tolerance
      => Len(outcomes[j].lines) <= Len(outcomes[i].lines)

\* the items and the threshold of search pass 1 or 2 of a call with options o
PassItems(o, pass) ==
  LET allItems == itemizeText(o.text, useHyphenationOf(o), o.hyphenationPatterns,
                              o.lefthyphenmin, o.righthyphenmin, contextOf(o))
  IN  IF pass = 1 /\ useHyphenationOf(o)
      THEN withoutHyphenation(allItems, contextOf(o).hyphenPenalty)
      ELSE allItems

PassThreshold(o, pass) == IF pass = 1 THEN o.pretolerance ELSE o.tolerance

\* the breakpoints of the lowest-demerit solution of that pass
LowestDemeritBreaks(o, pass) ==
  findBreakpoints(PassItems(o, pass), o.width, PassThreshold(o, pass), 0, FALSE, 0,
                  contextOf(o))

\* the rounds of the search a call recorded, each a sequence of pass records
RoundsOf(outcome) ==
  UNION { { outcome.paragraphs[q].passes[m] : m \in DOMAIN outcome.paragraphs[q].passes } :
          q \in DOMAIN outcome.paragraphs }

\* a non-final pass (1 or 2) of a call made with nonzero looseness
LoosePass(outcome, rec) ==
  outcome.options.looseness # 0 /\ rec.pass \in {1, 2}

AllItems(o) ==
  itemizeText(o.text, useHyphenationOf(o), o.hyphenationPatterns,
              o.lefthyphenmin, o.righthyphenmin, contextOf(o))

\* what pass number pass returns in round m (1-based) of the call with options o
ExpectedBreaks(o, pass, m) ==
  LET stretch == initialEmergencyStretchOf(o) + (m - 1) * (o.width \div 10)
  IN  CASE pass = 1 ->
             findBreakpoints(IF useHyphenationOf(o)
                             THEN withoutHyphenation(AllItems(o), contextOf(o).hyphenPenalty)
                             ELSE AllItems(o),
                             o.width, o.pretolerance, o.looseness, FALSE, 0, contextOf(o))
        [] pass = 2 ->
             findBreakpoints(AllItems(o), o.width, o.tolerance, o.looseness, FALSE, 0,
                             contextOf(o))
        [] pass = 3 ->
             findBreakpoints(AllItems(o), o.width, INF_BAD + 1, o.looseness, TRUE,
                             stretch, contextOf(o))
        [] OTHER -> << >>

\* the passes of one round are in order and each is run only after the earlier
\* ones returned nothing; passes 1 to 3 are the searches over the one item list
RoundInOrder(o, round, m) ==
  /\ round # << >> /\ round[1].pass = 1
  /\ \A n \in DOMAIN round :
       /\ n < Len(round) => round[n].breaks = << >> /\ round[n].pass < round[n + 1].pass
       /\ round[n].pass = 2 => useHyphenationOf(o)
       /\ round[n].pass \in {1, 2, 3} => round[n].breaks = ExpectedBreaks(o, round[n].pass, m)

\* C21: within one iteration the passes are tried strictly in order on the one
\* itemized list (pass 1 without hyphenation breaks at pretolerance, pass 2 with
\* them at tolerance, pass 3 with emergency stretch), and a pass is run only if
\* every earlier pass returned no breakpoints
C21_PassesInOrder ==
  laidOut =>
    \A k \in DOMAIN result.paragraphs :
      \A m \in DOMAIN result.paragraphs[k].passes :
        RoundInOrder([layoutOptions EXCEPT !.text = result.paragraphs[k].text],
                     result.paragraphs[k].passes[m], m)

\* a hyphenated paragraph whose first two passes returned nothing and whose
\* third pass returned breakpoints
C21_Witness ==
  /\ laidOut
  /\ \E k \in DOMAIN result.paragraphs : \E m \in DOMAIN result.paragraphs[k].passes :
       LET round == result.paragraphs[k].passes[m]
       IN  /\ Len(round) = 3
           /\ round[2].pass = 2 /\ round[2].breaks = << >>
           /\ round[3].pass = 3 /\ round[3].breaks # << >>
           /\ \E i \in DOMAIN result.paragraphs[k].items :
                result.paragraphs[k].items[i].type = "DISCRETIONARY"

\* the items the last pass of a round searched, and whether the round's
\* breakpoints have a detected single-word line
RoundItems(o, round) ==
  IF round[Len(round)].pass = 1 /\ useHyphenationOf(o)
  THEN withoutHyphenation(AllItems(o), contextOf(o).hyphenPenalty)
  ELSE AllItems(o)

SingleWordDetected(o, round) ==
  /\ ~o.disableSingleWordDetection
  /\ Len(round[Len(round)].breaks) > 1
  /\ hasSingleWordLines(RoundItems(o, round), round[Len(round)].breaks, o.width)

\* the rounds of one paragraph: at most MAX_ITERATIONS, a round is followed by
\* another only if it detected a single-word line, round m searches with the
\* emergency stretch raised m - 1 times by a tenth of the width, and a layout
\* with a detected single-word line comes from round MAX_ITERATIONS only
RepairBounded(o, rounds) ==
  /\ Len(rounds) <= MAX_ITERATIONS
  /\ \A m \in DOMAIN rounds :
       /\ m < Len(rounds) => SingleWordDetected(o, rounds[m])
       /\ (m = Len(rounds) /\ SingleWordDetected(o, rounds[m])) => m = MAX_ITERATIONS
       /\ rounds[m][Len(rounds[m])].pass = 3
            => rounds[m][Len(rounds[m])].breaks = ExpectedBreaks(o, 3, m)

\* C22: the single-word-line repair loop runs the search at most 5 times per
\* paragraph, repeats it with 10% of the width more emergency stretch each time
\* a single-word line is detected, and returns a layout that still has one
\* only after the fifth run
C22_RepairLoopBounded ==
  laidOut =>
    \A k \in DOMAIN result.paragraphs :
      RepairBounded([layoutOptions EXCEPT !.text = result.paragraphs[k].text],
                    result.paragraphs[k].passes)

\* a paragraph whose search ran five times and still has a single-word line
C22_Witness ==
  /\ laidOut
  /\ \E k \in DOMAIN result.paragraphs :
       /\ Len(result.paragraphs[k].passes) = MAX_ITERATIONS
       /\ SingleWordDetected([layoutOptions EXCEPT !.text = result.paragraphs[k].text],
                             result.paragraphs[k].passes[MAX_ITERATIONS])

\* the world-space box of glyph i of the cluster at hand
ClusterBox(i) ==
  getWorldBounds(getContoursForGlyph(At(clusterGlyphs, i).g), At(clusterGlyphs, i))

\* two boxes overlap in x and overlap in y
BoxesOverlap(a, b) ==
  /\ a.minX <= b.maxX /\ b.minX <= a.maxX
  /\ a.minY <= b.maxY /\ b.minY <= a.maxY

\* the glyphs a chain of overlapping pairs leads to from those in S
RECURSIVE ChainFrom(_)
ChainFrom(S) ==
  LET more == S \cup {j \in 0..(Len(clusterGlyphs) - 1) :
                        \E i \in S : BoxesOverlap(ClusterBox(i), ClusterBox(j))}
  IN  IF more = S THEN S ELSE ChainFrom(more)

\* the groups of the result that hold glyph i, once for each time they hold it
PlacesOf(i) ==
  {<<k, m>> \in (DOMAIN boundaryGroups) \X (1..MaxGlyphs) :
     m \in DOMAIN boundaryGroups[k] /\ boundaryGroups[k][m] = i}

SameGroup(i, j) == \E p \in PlacesOf(i), q \in PlacesOf(j) : p[1] = q[1]

\* C23: cluster returns a partition of the glyph indices 0..n-1 (every index in
\* one group, once; nothing else in a group; no empty group), and two glyphs
\* are in the same group exactly when a chain of glyph pairs whose world-space
\* boxes overlap in x and in y connects them
C23_ClustersAreOverlapComponents ==
  boundaryGroups # NotClustered =>
    LET n == Len(clusterGlyphs)
    IN  /\ \A i \in 0..(n - 1) : Cardinality(PlacesOf(i)) = 1
        /\ \A k \in DOMAIN boundaryGroups :
             /\ boundaryGroups[k] # << >>
             /\ \A m \in DOMAIN boundaryGroups[k] : boundaryGroups[k][m] \in 0..(n - 1)
        /\ \A i, j \in 0..(n - 1) : SameGroup(i, j) <=> j \in ChainFrom({i})

\* cluster has put two glyphs whose boxes do not overlap into one group, by a
\* chain through a third, and has left two overlapping in x alone apart in y
C23_Witness ==
  /\ boundaryGroups # NotClustered
  /\ Len(clusterGlyphs) = MaxGlyphs
  /\ \E i, j \in 0..(MaxGlyphs - 1) :
       SameGroup(i, j) /\ ~BoxesOverlap(ClusterBox(i), ClusterBox(j))

\* cluster has kept apart two glyphs whose boxes overlap in x but not in y
C23_WitnessApart ==
  /\ boundaryGroups # NotClustered
  /\ \E i, j \in 0..(Len(clusterGlyphs) - 1) :
       /\ ~SameGroup(i, j)
       /\ ClusterBox(i).minX <= ClusterBox(j).maxX /\ ClusterBox(j).minX <= ClusterBox(i).maxX

\* the elements of a heap array
HeapSet(heap) == {heap[k] : k \in DOMAIN heap}

\* C24: after any sequence of insert, update and extractMin calls in which an
\* element's key changes only right before update is called on it, extractMin
\* returns an element that is minimal under the comparator among the elements
\* in the heap, and removes exactly that element (each other element stays,
\* once)
C24_ExtractMinReturnsMinimum ==
  extracted.before # << >> =>
    /\ extracted.min \in HeapSet(extracted.before)
    /\ \A e \in HeapSet(extracted.before) : extracted.keys[extracted.min] - extracted.keys[e] <= 0
    /\ HeapSet(extracted.after) = HeapSet(extracted.before) \ {extracted.min}
    /\ Len(extracted.after) = Len(extracted.before) - 1
    /\ Cardinality(HeapSet(extracted.after)) = Len(extracted.after)

\* extractMin has just run, as the fifth call or a later one, on a heap of three
\* or more elements whose keys differ, and has left a larger key behind
C24_Witness ==
  /\ Len(extracted.before) >= 3
  /\ extracted.after = heapItems
  /\ heapCalls >= 5
  /\ \E e \in HeapSet(extracted.after) : extracted.keys[e] > extracted.keys[extracted.min]
  /\ \E e \in HeapSet(extracted.before) : extracted.keys[e] > extracted.keys[extracted.before[1]]

\* the nodes met from head along next, for as many steps as there are nodes
RECURSIVE ListWalk(_, _)
ListWalk(n, steps) ==
  IF n = 0 \/ steps = 0 THEN << >> ELSE <<n>> \o ListWalk(nodes[n].next, steps - 1)

LinkedList == ListWalk(head, Len(nodes) + 1)

\* C25: after any sequence of get, set and clear calls the doubly linked list
\* from head to tail holds exactly the nodes stored in the key-to-node map,
\* each once, ordered from most recently used to least recently used, and
\* head.prev and tail.next are both null
C25_ListMatchesMap ==
  LET list == LinkedList
  IN  /\ {list[i] : i \in DOMAIN list} = {cache[k] : k \in Resident}
      /\ Len(list) = Cardinality(Resident)
      /\ (list = << >>) <=> (head = 0 /\ tail = 0)
      /\ list # << >> => list[Len(list)] = tail
      /\ \A i, j \in DOMAIN list :
           i < j => lastUse[nodes[list[i]].key] > lastUse[nodes[list[j]].key]
      /\ head # 0 => nodes[head].prev = 0
      /\ tail # 0 => nodes[tail].next = 0

\* the list and the map agree on the nodes, and yet the head has a predecessor
C25_HeadHasPredecessor ==
  /\ {LinkedList[i] : i \in DOMAIN LinkedList} = {cache[k] : k \in Resident}
  /\ Len(LinkedList) = Cardinality(Resident)
  /\ head # 0
  /\ nodes[head].prev # 0

\* C27: Text.create called with two font buffers whose contents differ never
\* uses the loaded font of one for the other (nor its cached glyph meshes):
\* different contents get different font-cache keys, different glyph-cache
\* font identities, and each text is shaped with the font made of its own bytes
C27_DifferentFontsKeptApart ==
  \A s, t \in 1..Len(texts) :
     texts[s].font # texts[t].font =>
       /\ texts[s].fontKey # texts[t].fontKey
       /\ texts[s].fontId # texts[t].fontId
       /\ texts[s].face = texts[s].font
       /\ texts[t].face = texts[t].font

\* C28: after a HarfBuzz initialization has failed, a later Text.init or
\* Text.create call made without reconfiguring the WASM path or buffer starts
\* a new initialization attempt rather than returning the earlier failure
C28_RetriesAfterFailure ==
  \A i \in DOMAIN hbInits :
     hbInits[i].stateBefore = "rejected" =>
       \A j \in 1..(i - 1) : hbInits[j].attempt # hbInits[i].attempt

\* Text.init has returned, with a WASM path set, the promise an earlier call got
\* and createHarfBuzz had rejected since
C28_FailureReturnedAgain ==
  /\ hbInitPromise.uses = "locateFile"
  /\ hbState = "rejected"
  /\ Len(hbInits) >= 2
  /\ hbInits[Len(hbInits)].stateBefore = "rejected"
  /\ hbInits[Len(hbInits)].attempt = hbInits[Len(hbInits) - 1].attempt

\* C29: every call to the p5 preload methods loadThreeTextShaper and
\* loadThreeTextFont is eventually followed by exactly one _decrementPreload
\* call for that call, whether the load succeeds or fails and however many
\* times the methods are called
C29_EveryPreloadCallCountedOut ==
  /\ [](\A c \in DOMAIN preloadCalls : preloadCalls[c].decrements <= 1)
  /\ \A c \in 1..MaxPreloadCalls :
       (c \in DOMAIN preloadCalls) ~> (c \in DOMAIN preloadCalls /\ preloadCalls[c].decrements = 1)

\* the same for the calls of loadThreeTextFont and the first call of loadThreeTextShaper
C29_FirstShaperCallAndFontCallsCountedOut ==
  /\ [](\A c \in DOMAIN preloadCalls : preloadCalls[c].decrements <= 1)
  /\ \A c \in 1..MaxPreloadCalls :
       (/\ c \in DOMAIN preloadCalls
        /\ \/ preloadCalls[c].method = "loadThreeTextFont"
           \/ \A b \in 1..(c - 1) : preloadCalls[b].method # "loadThreeTextShaper")
         ~> (c \in DOMAIN preloadCalls /\ preloadCalls[c].decrements = 1)

\* C30: text matching by pattern terminates for every pattern string, the
\* empty string included: a query with byText and the colour-boundary scan for
\* color.byText each finish after finitely many steps for any text and any
\* list of patterns
C30_MatchingTerminates ==
  (queryPc \in {"findByText", "colorBoundaries"}) ~> (queryPc = "done")

\* the patterns of the list that are not empty
NoEmptyPattern == \A p \in DOMAIN queryPatterns : queryPatterns[p] # << >>

\* matching terminates when no pattern is the empty string
C30_TerminatesWithoutEmptyPattern ==
  (queryPc \in {"findByText", "colorBoundaries"} /\ NoEmptyPattern) ~> (queryPc = "done")

\* the positions of a breakpoint list increase strictly
StrictlyIncreasing(breaks) ==
  \A n \in 1..(Len(breaks) - 1) : breaks[n] < breaks[n + 1]

\* every line of a breakpoint list spans an item: the list increases strictly
\* and its first line, which starts at the paragraph's first item, ends after it
NoEmptyLine(breaks) ==
  /\ StrictlyIncreasing(breaks)
  /\ breaks # << >> => breaks[1] > 0

\* C26: every breakpoint list returned by a search pass is strictly increasing
\* in item position, for every threshold (the pass that accepts
\* unconditionally included) and every looseness, so that no two consecutive
\* breakpoints coincide and no returned line spans zero items
C26_BreakpointsIncrease ==
  \A k \in DOMAIN outcomes : \A round \in RoundsOf(outcomes[k]) :
    \A n \in DOMAIN round : NoEmptyLine(round[n].breaks)

\* the same of the passes computeLines ran on the text typed in
C26_LayoutBreakpointsIncrease ==
  laidOut =>
    \A k \in DOMAIN result.paragraphs :
      \A m \in DOMAIN result.paragraphs[k].passes :
        \A n \in DOMAIN result.paragraphs[k].passes[m] :
          NoEmptyLine(result.paragraphs[k].passes[m][n].breaks)

(***************************************************************************)
(* Specifications.  The three machines do not share state; each            *)
(* specification runs one of them and leaves the others in their initial   *)
(* state.                                                                  *)
(***************************************************************************)
Init == CacheInit /\ CreateInit /\ LayoutInit /\ GeomInit /\ PathInit /\ HbInit /\ BreakInit
        /\ ClusterInit /\ HeapInit /\ PreloadInit /\ QueryInit

SpecCache == Init /\ [][CacheNext]_vars

SpecCreate == Init /\ [][CreateNext]_vars

SpecLayout == Init /\ [][LayoutNext]_vars

SpecGeometry == Init /\ [][GeomNext]_vars

SpecPath == Init /\ [][PathNext]_vars

SpecHarfBuzz == Init /\ [][HbNext]_vars

SpecBreak == Init /\ [][BreakNext]_vars

SpecCluster == Init /\ [][ClusterNext]_vars

SpecHeap == Init /\ [][HeapNext]_vars

SpecPreload == Init /\ [][PreloadNext]_vars

\* a promise settles and its callbacks run: the event loop leaves no ready
\* callback waiting for ever, and a fetch or a WASM load ends one way or the other
SpecPreloadFair ==
  /\ SpecPreload
  /\ WF_vars(\E ok \in BOOLEAN : settle(ok))
  /\ WF_vars(\E c \in 1..MaxPreloadCalls : shaperSettled(c))
  /\ WF_vars(\E c \in 1..MaxPreloadCalls, ok \in BOOLEAN : fontSettled(c, ok))

SpecQuery == Init /\ [][QueryNext]_vars

\* a loop that can take its next turn takes it
SpecQueryFair ==
  /\ SpecQuery
  /\ WF_vars(findByTextStep)
  /\ WF_vars(colorBoundariesStep)

====
